------------------------ MODULE ExecutionPlaneProofs ------------------------
(***************************************************************************)
(* Proofs about ExecutionPlane, for every set of decisions, quantity,      *)
(* number of retries and venue: until the first restart book and ledger    *)
(* agree but for the sells the book refused; across restarts and failing   *)
(* saves the ledger file keeps to the transition table, a lot is booked    *)
(* twice only if an exception stranded it, an order is closed only with    *)
(* its trades recorded and, if saves do not fail, an entry is booked from  *)
(* one source.                                                             *)
(***************************************************************************)
EXTENDS ExecutionPlane, FiniteSetTheorems, TLAPS

-----------------------------------------------------------------------------
(***************************************************************************)
(* Submission alone, whose specification the plane's extends.              *)
(***************************************************************************)
(* A row that is not absent is an order. *)
LEMMA PresentRow ==
    ASSUME NEW row \in Order \cup {NoOrder}
    PROVE  /\ row # NoOrder <=> row.state # "NONE"
           /\ row # NoOrder => row \in Order /\ row.state \in OrderState
           /\ row.attempts \in Nat /\ row.vid \in Nat /\ row.qty \in Nat
  BY DEF Order, NoOrder, OrderState

(* The transition table is transitive: a save that skips intermediate      *)
(* states still moves the file along the table.                            *)
LEMMA LegalTransitive ==
    ASSUME NEW a \in OrderState, NEW b \in OrderState, NEW c \in OrderState,
           IsLegalTransition(a, b), IsLegalTransition(b, c)
    PROVE  IsLegalTransition(a, c)
  BY DEF OrderState, IsLegalTransition, AllowedTransitions, ClosingStates,
         TerminalStates

(* Progress of rows composes. *)
LEMMA RowProgressTransitive ==
    ASSUME NEW a \in Order \cup {NoOrder}, NEW b \in Order \cup {NoOrder},
           NEW c \in Order \cup {NoOrder},
           RowProgress(a, b), RowProgress(b, c)
    PROVE  RowProgress(a, c)
  BY PresentRow, LegalTransitive DEF RowProgress

(* The planner returns a positive quantity, never above the cap. *)
LEMMA PlannedQuantityType ==
    ASSUME NEW quantity \in Quantities, NEW cap \in {None} \cup Nat, cap # 0
    PROVE  /\ PlannedQuantity(quantity, cap) \in Nat \ {0}
           /\ cap # None => PlannedQuantity(quantity, cap) <= cap
  BY SubmissionAssumption DEF Quantities, PlannedQuantity

(* The cap of a resumed exit never exceeds the quantity planned before. *)
LEMMA ReduceOnlyCapType ==
    ASSUME NEW d \in Decisions, NEW held \in Holdings,
           NEW q \in Nat
    PROVE  /\ ReduceOnlyCap(d, held, q) \in {None} \cup Nat
           /\ d \in ReduceOnly /\ q # 0
                 => /\ ReduceOnlyCap(d, held, q) \in Nat
                    /\ ReduceOnlyCap(d, held, q) <= q
  BY SubmissionAssumption DEF ReduceOnlyCap, Holdings

(* The row a new decision gets. *)
LEMMA FreshRow ==
    ASSUME NEW d \in Decisions, NEW held \in Holdings, SubmitFresh(d, held)
    PROVE  \E q \in Nat \ {0} : ledger' = [ledger EXCEPT ![d] = PlannedOrder(q)]
<1>1. PICK quantity \in Quantities :
          /\ ReduceOnlyCap(d, held, 0) # 0
          /\ ledger' = [ledger EXCEPT ![d] =
                 PlannedOrder(PlannedQuantity(quantity, ReduceOnlyCap(d, held, 0)))]
  BY DEF SubmitFresh
<1>2. PlannedQuantity(quantity, ReduceOnlyCap(d, held, 0)) \in Nat \ {0}
  BY <1>1, PlannedQuantityType, ReduceOnlyCapType
<1> QED
  BY <1>1, <1>2

(* The quantity a resumed row gets: for an exit, not above the old one. *)
LEMMA ReplannedRow ==
    ASSUME TypeOK, CallState, NEW held \in Holdings, GateReplan(held)
    PROVE  \E q \in Nat \ {0} :
               /\ ledger' = [ledger EXCEPT ![cur].qty = q]
               /\ cur \in ReduceOnly => q <= ledger[cur].qty
<1>1. cur \in Decisions /\ ledger[cur] \in Order /\ ledger[cur].qty \in Nat \ {0}
  BY PresentRow DEF TypeOK, CallState, GateReplan, NoOrder, Order
<1>2. PICK quantity \in Quantities :
          /\ ReduceOnlyCap(cur, held, ledger[cur].qty) # 0
          /\ ledger' = [ledger EXCEPT ![cur].qty =
                 PlannedQuantity(quantity, ReduceOnlyCap(cur, held, ledger[cur].qty))]
  BY DEF GateReplan
<1>3. DEFINE cap == ReduceOnlyCap(cur, held, ledger[cur].qty)
             q == PlannedQuantity(quantity, cap)
<1>4. /\ cap \in {None} \cup Nat
      /\ cur \in ReduceOnly => cap \in Nat /\ cap <= ledger[cur].qty
  BY <1>1, ReduceOnlyCapType
<1>5. q \in Nat \ {0} /\ (cap # None => q <= cap)
  BY <1>2, <1>4, PlannedQuantityType
<1>6. cur \in ReduceOnly => q <= ledger[cur].qty
  <2> SUFFICES ASSUME cur \in ReduceOnly PROVE q <= ledger[cur].qty
    OBVIOUS
  <2>1. cap \in Nat /\ cap <= ledger[cur].qty /\ cap # None
    BY <1>4, SubmissionAssumption
  <2> HIDE DEF cap, q
  <2> QED
    BY <2>1, <1>5, <1>1
<1> QED
  BY <1>2, <1>5, <1>6

(* Every step keeps the types; the rows of the current call must exist. *)
LEMMA TypeStep == CoreInv /\ [Next]_vars => TypeOK'
<1> SUFFICES ASSUME CoreInv, [Next]_vars PROVE TypeOK'
  OBVIOUS
<1> USE SubmissionAssumption, PresentRow
       DEF CoreInv, ProgressInv, TypeOK, CallState, Return, SetState,
           SubmissionStatus, Label, MayRetry, AtGate, AtSave, Order,
           OrderState, Request, NoOrder
<1>1. ASSUME NEW d \in Decisions, SubmitDuplicate(d) PROVE TypeOK'
  BY <1>1 DEF SubmitDuplicate
<1>2. ASSUME NEW d \in Decisions, SubmitResume(d) PROVE TypeOK'
  BY <1>2 DEF SubmitResume
<1>3. ASSUME NEW d \in Decisions, NEW held \in Holdings, SubmitFresh(d, held)
      PROVE  TypeOK'
  <2>1. PICK q \in Nat \ {0} : ledger' = [ledger EXCEPT ![d] = PlannedOrder(q)]
    BY <1>3, FreshRow
  <2> QED
    BY <1>3, <2>1 DEF SubmitFresh, PlannedOrder
<1>4. ASSUME NEW d \in Decisions, SubmitFreshRefused(d) PROVE TypeOK'
  BY <1>4 DEF SubmitFreshRefused
<1>5. CASE GateUnanswered
  BY <1>5 DEF GateUnanswered
<1>6. CASE GateAdopt
  BY <1>6 DEF GateAdopt
<1>7. CASE GateExhausted
  BY <1>7 DEF GateExhausted
<1>8. CASE GateRetry
  BY <1>8 DEF GateRetry
<1>9. ASSUME NEW held \in Holdings, GateReplan(held) PROVE TypeOK'
  <2>1. PICK q \in Nat \ {0} : /\ ledger' = [ledger EXCEPT ![cur].qty = q]
                               /\ cur \in ReduceOnly => q <= ledger[cur].qty
    BY <1>9, ReplannedRow
  <2>2. /\ cur \in Decisions /\ ledger[cur] \in Order
        /\ pc' = "savePlan"
        /\ UNCHANGED <<file, cur, answer, result, wire, venue>>
    BY <1>9 DEF GateReplan
  <2>3. [ledger[cur] EXCEPT !.qty = q] \in Order
    BY <2>2
  <2>4. ledger' \in [Decisions -> Order \cup {NoOrder}]
    BY <2>1, <2>2, <2>3
  <2> QED
    BY <2>2, <2>4
<1>10. CASE GateReplanRefused
  BY <1>10 DEF GateReplanRefused
<1>11. CASE SavePlan
  BY <1>11 DEF SavePlan
<1>12. CASE SaveAttempt
  BY <1>12 DEF SaveAttempt
<1>13. CASE SaveUncertain
  BY <1>13 DEF SaveUncertain
<1>14. CASE SaveResult
  BY <1>14 DEF SaveResult
<1>15. CASE SaveRaises
  BY <1>15 DEF SaveRaises
<1>16. CASE CallAccepted
  BY <1>16 DEF CallAccepted
<1>17. CASE CallRefused
  BY <1>17 DEF CallRefused
<1>18. CASE CallUncertain
  BY <1>18 DEF CallUncertain
<1>19. ASSUME NEW r \in wire, VenueAccept(r) PROVE TypeOK'
  BY <1>19 DEF VenueAccept
<1>20. ASSUME NEW r \in wire, VenueRefuse(r) PROVE TypeOK'
  BY <1>20 DEF VenueRefuse
<1>21. ASSUME NEW r \in wire, RequestLost(r) PROVE TypeOK'
  BY <1>21 DEF RequestLost
<1>22. CASE Crash
  BY <1>22 DEF Crash
<1>23. CASE UNCHANGED vars
  BY <1>23 DEF vars
<1> QED
  BY <1>1, <1>2, <1>3, <1>4, <1>5, <1>6, <1>7, <1>8, <1>9, <1>10, <1>11,
     <1>12, <1>13, <1>14, <1>15, <1>16, <1>17, <1>18, <1>19, <1>20, <1>21,
     <1>22, <1>23
     DEF Next, SubmitStep, GateStep, SaveStep, CallStep, NetworkStep

(* Every step keeps memory ahead of the file, the write-ahead order, the   *)
(* bounds on attempts and the place of the current call.                   *)
LEMMA CoreStep == CoreInv /\ [Next]_vars => ProgressInv'
<1> SUFFICES ASSUME CoreInv, [Next]_vars PROVE ProgressInv'
  OBVIOUS
<1> USE SubmissionAssumption, PresentRow, TypeStep
       DEF CoreInv, ProgressInv, TypeOK, CallState, Return, SetState, Label,
           MayRetry, AtGate, AtSave, Order, OrderState, Request, NoOrder,
           LedgerAhead, WriteAhead, AttemptsBounded, ExitsShrink, RowProgress,
           IsLegalTransition, AllowedTransitions, ClosingStates,
           TerminalStates, Awaited
<1>1. ASSUME NEW d \in Decisions, SubmitDuplicate(d) PROVE ProgressInv'
  BY <1>1 DEF SubmitDuplicate
<1>2. ASSUME NEW d \in Decisions, SubmitResume(d) PROVE ProgressInv'
  BY <1>2 DEF SubmitResume
<1>3. ASSUME NEW d \in Decisions, NEW held \in Holdings, SubmitFresh(d, held)
      PROVE  ProgressInv'
  <2>1. PICK q \in Nat \ {0} : ledger' = [ledger EXCEPT ![d] = PlannedOrder(q)]
    BY <1>3, FreshRow
  <2>2. /\ pc = "idle" /\ ledger[d].state = "NONE"
        /\ pc' = "savePlan" /\ cur' = d
        /\ UNCHANGED <<file, answer, wire, venue>>
    BY <1>3 DEF SubmitFresh
  <2>3. /\ ledger'[d] = PlannedOrder(q)
        /\ \A e \in Decisions \ {d} : ledger'[e] = ledger[e]
    BY <2>1
  <2>4. file[d] = NoOrder /\ ledger[d] = NoOrder
    BY <2>2
  <2>5. LedgerAhead'
    BY <2>2, <2>3, <2>4 DEF PlannedOrder
  <2>6. WriteAhead'
    BY <2>2
  <2>7. AttemptsBounded'
    BY <2>2, <2>3 DEF PlannedOrder
  <2>8. ExitsShrink'
    BY <2>2, <2>3, <2>4
  <2>9. CallState'
    BY <2>2, <2>3 DEF PlannedOrder
  <2> QED
    BY <2>5, <2>6, <2>7, <2>8, <2>9
<1>4. ASSUME NEW d \in Decisions, SubmitFreshRefused(d) PROVE ProgressInv'
  BY <1>4 DEF SubmitFreshRefused
<1>5. CASE GateUnanswered
  BY <1>5 DEF GateUnanswered
<1>6. CASE GateAdopt
  BY <1>6 DEF GateAdopt
<1>7. CASE GateExhausted
  BY <1>7 DEF GateExhausted
<1>8. CASE GateRetry
  BY <1>8 DEF GateRetry
<1>9. ASSUME NEW held \in Holdings, GateReplan(held) PROVE ProgressInv'
  <2>1. PICK q \in Nat \ {0} : /\ ledger' = [ledger EXCEPT ![cur].qty = q]
                               /\ cur \in ReduceOnly => q <= ledger[cur].qty
    BY <1>9, ReplannedRow
  <2>2. /\ cur \in Decisions /\ ledger[cur] \in Order
        /\ pc' = "savePlan"
        /\ UNCHANGED <<file, cur, answer, wire, venue>>
    BY <1>9 DEF GateReplan
  <2>3. /\ \A e \in Decisions \ {cur} : ledger'[e] = ledger[e]
        /\ ledger'[cur] = [ledger[cur] EXCEPT !.qty = q]
    BY <2>1, <2>2
  <2>4. LedgerAhead'
    BY <2>2, <2>3
  <2>5. ExitsShrink'
    BY <2>1, <2>2, <2>3
  <2>6. WriteAhead' /\ AttemptsBounded' /\ CallState'
    BY <1>9, <2>2, <2>3 DEF GateReplan
  <2> QED
    BY <2>4, <2>5, <2>6
<1>10. CASE GateReplanRefused
  BY <1>10 DEF GateReplanRefused
<1>11. CASE SavePlan
  <2>1. /\ cur \in Decisions /\ ledger[cur] \in Order
        /\ file' = ledger /\ pc' = "saveAttempt"
        /\ ledger' = [ledger EXCEPT ![cur].attempts = ledger[cur].attempts + 1]
        /\ UNCHANGED <<cur, answer, wire, venue>>
    BY <1>11 DEF SavePlan
  <2>2. LedgerAhead'
    BY <2>1
  <2>3. WriteAhead'
    <3> SUFFICES ASSUME NEW r \in wire \cup venue
                 PROVE  ledger[r.d] # NoOrder /\ r.k <= ledger[r.d].attempts
      BY <2>1
    <3>1. /\ r.d \in Decisions /\ r.k \in Nat
          /\ file[r.d] # NoOrder /\ r.k <= file[r.d].attempts
      OBVIOUS
    <3>2. ledger[r.d] # NoOrder /\ file[r.d].attempts <= ledger[r.d].attempts
      BY <3>1
    <3>3. file[r.d].attempts \in Nat /\ ledger[r.d].attempts \in Nat
      BY <3>1
    <3> QED
      BY <3>1, <3>2, <3>3
  <2>4. AttemptsBounded'
    BY <1>11, <2>1 DEF SavePlan
  <2>5. ExitsShrink'
    BY <2>1
  <2>6. CallState'
    BY <1>11, <2>1 DEF SavePlan
  <2> QED
    BY <2>2, <2>3, <2>4, <2>5, <2>6
<1>12. CASE SaveAttempt
  <2>1. /\ cur \in Decisions /\ ledger[cur] # NoOrder /\ ledger[cur].attempts # 0
        /\ file' = ledger /\ pc' = "call" /\ answer' = "none"
        /\ wire' = wire \cup
              {[d |-> cur, k |-> ledger[cur].attempts, qty |-> ledger[cur].qty]}
        /\ UNCHANGED <<ledger, cur, venue>>
    BY <1>12 DEF SaveAttempt
  <2>2. LedgerAhead'
    BY <2>1
  <2>3. WriteAhead'
    BY <2>1
  <2>4. AttemptsBounded' /\ ExitsShrink'
    BY <2>1
  <2>5. CallState'
    BY <1>12, <2>1 DEF SaveAttempt
  <2> QED
    BY <2>2, <2>3, <2>4, <2>5
<1>13. CASE SaveUncertain
  <2>1. /\ file' = ledger /\ pc' = "gateRetry" /\ UNCHANGED <<ledger, cur, answer, wire, venue>>
    BY <1>13 DEF SaveUncertain
  <2>2. LedgerAhead' /\ WriteAhead'
    BY <2>1
  <2>3. AttemptsBounded' /\ ExitsShrink'
    BY <2>1
  <2>4. CallState'
    BY <1>13, <2>1 DEF SaveUncertain
  <2> QED
    BY <2>2, <2>3, <2>4
<1>14. CASE SaveResult
  BY <1>14 DEF SaveResult
<1>15. CASE SaveRaises
  BY <1>15 DEF SaveRaises
<1>16. CASE CallAccepted
  BY <1>16 DEF CallAccepted
<1>17. CASE CallRefused
  <2>1. /\ cur \in Decisions /\ file[cur] # NoOrder
        /\ ledger[cur] \in Order
    BY <1>17 DEF CallRefused
  <2>2. /\ \A e \in Decisions \ {cur} : ledger'[e] = ledger[e]
        /\ ledger'[cur] = [ledger[cur] EXCEPT !.state = "REJECTED"]
        /\ UNCHANGED file
    BY <1>17, <2>1 DEF CallRefused
  <2>3. RowProgress(ledger[cur], ledger'[cur])
    BY <1>17, <2>1, <2>2 DEF CallRefused
  <2>4. ASSUME NEW e \in Decisions
        PROVE  /\ RowProgress(file[e], ledger'[e])
               /\ file[e] = NoOrder => ledger'[e].state # "SUBMISSION_UNCERTAIN"
    <3>1. CASE e = cur
      <4>1. RowProgress(file[cur], ledger[cur])
        BY <2>1
      <4>2. ledger'[cur] \in Order \cup {NoOrder} /\ file[cur] \in Order \cup {NoOrder}
        BY <2>1
      <4> HIDE DEF RowProgress
      <4> QED
        BY <2>1, <2>3, <3>1, <4>1, <4>2, RowProgressTransitive
    <3>2. CASE e # cur
      BY <2>2, <3>2
    <3> QED
      BY <3>1, <3>2
  <2>5. LedgerAhead'
    BY <2>2, <2>4
  <2>6. WriteAhead' /\ AttemptsBounded' /\ ExitsShrink' /\ CallState'
    BY <1>17, <2>1 DEF CallRefused
  <2> QED
    BY <2>5, <2>6
<1>18. CASE CallUncertain
  <2>1. /\ cur \in Decisions /\ file[cur] # NoOrder
        /\ ledger[cur] \in Order
    BY <1>18 DEF CallUncertain
  <2>2. /\ \A e \in Decisions \ {cur} : ledger'[e] = ledger[e]
        /\ ledger'[cur] = [ledger[cur] EXCEPT !.state = "SUBMISSION_UNCERTAIN"]
        /\ UNCHANGED file
    BY <1>18, <2>1 DEF CallUncertain
  <2>3. RowProgress(ledger[cur], ledger'[cur])
    BY <1>18, <2>1, <2>2 DEF CallUncertain
  <2>4. ASSUME NEW e \in Decisions
        PROVE  /\ RowProgress(file[e], ledger'[e])
               /\ file[e] = NoOrder => ledger'[e].state # "SUBMISSION_UNCERTAIN"
    <3>1. CASE e = cur
      <4>1. RowProgress(file[cur], ledger[cur])
        BY <2>1
      <4>2. ledger'[cur] \in Order \cup {NoOrder} /\ file[cur] \in Order \cup {NoOrder}
        BY <2>1
      <4> HIDE DEF RowProgress
      <4> QED
        BY <2>1, <2>3, <3>1, <4>1, <4>2, RowProgressTransitive
    <3>2. CASE e # cur
      BY <2>2, <3>2
    <3> QED
      BY <3>1, <3>2
  <2>5. LedgerAhead'
    BY <2>2, <2>4
  <2>6. WriteAhead' /\ AttemptsBounded' /\ ExitsShrink' /\ CallState'
    BY <1>18, <2>1 DEF CallUncertain
  <2> QED
    BY <2>5, <2>6
<1>19. ASSUME NEW r \in wire, VenueAccept(r) PROVE ProgressInv'
  BY <1>19 DEF VenueAccept
<1>20. ASSUME NEW r \in wire, VenueRefuse(r) PROVE ProgressInv'
  BY <1>20 DEF VenueRefuse
<1>21. ASSUME NEW r \in wire, RequestLost(r) PROVE ProgressInv'
  BY <1>21 DEF RequestLost
<1>22. CASE Crash
  BY <1>22 DEF Crash
<1>23. CASE UNCHANGED vars
  BY <1>23 DEF vars
<1> QED
  BY <1>1, <1>2, <1>3, <1>4, <1>5, <1>6, <1>7, <1>8, <1>9, <1>10, <1>11,
     <1>12, <1>13, <1>14, <1>15, <1>16, <1>17, <1>18, <1>19, <1>20, <1>21,
     <1>22, <1>23
     DEF Next, SubmitStep, GateStep, SaveStep, CallStep, NetworkStep

(* Only a row that was never sent stays out of the file. *)
LEMMA UnsavedStep == BaseInv /\ [Next]_vars => UnsavedIsPlanned'
<1> SUFFICES ASSUME BaseInv, [Next]_vars PROVE UnsavedIsPlanned'
  OBVIOUS
<1> USE PresentRow
       DEF BaseInv, CoreInv, ProgressInv, TypeOK, CallState, Return, SetState,
           Label, AtGate, LedgerAhead, UnsavedIsPlanned, RowProgress, NoOrder
<1>1. CASE \E d \in Decisions :
             SubmitDuplicate(d) \/ SubmitResume(d) \/ SubmitFreshRefused(d)
  BY <1>1 DEF SubmitDuplicate, SubmitResume, SubmitFreshRefused
<1>2. ASSUME NEW d \in Decisions, NEW held \in Holdings, SubmitFresh(d, held)
      PROVE  UnsavedIsPlanned'
  BY <1>2, FreshRow DEF SubmitFresh, PlannedOrder
<1>3. CASE GateUnanswered \/ GateAdopt \/ GateExhausted \/ GateRetry \/ GateReplanRefused
  BY <1>3 DEF GateUnanswered, GateAdopt, GateExhausted, GateRetry, GateReplanRefused
<1>4. ASSUME NEW held \in Holdings, GateReplan(held) PROVE UnsavedIsPlanned'
  BY <1>4, ReplannedRow DEF GateReplan
<1>5. CASE SavePlan
  BY <1>5 DEF SavePlan
<1>6. CASE SaveAttempt \/ SaveUncertain \/ SaveResult \/ SaveRaises
  BY <1>6 DEF SaveAttempt, SaveUncertain, SaveResult, SaveRaises
<1>7. CASE CallStep
  BY <1>7 DEF CallStep, CallAccepted, CallRefused, CallUncertain
<1>8. CASE NetworkStep \/ UNCHANGED vars
  BY <1>8 DEF NetworkStep, VenueAccept, VenueRefuse, RequestLost, vars
<1>9. CASE Crash
  BY <1>9 DEF Crash
<1> QED
  BY <1>1, <1>2, <1>3, <1>4, <1>5, <1>6, <1>7, <1>8, <1>9
     DEF Next, SubmitStep, GateStep, SaveStep

(* Every step keeps a decision at one live request: the gate lets a call    *)
(* send again only when neither the wire nor the venue holds one.          *)
LEMMA OnceStep ==
    ~LateDelivery /\ CoreInv /\ OnceInv /\ [Next]_vars => OnceInv'
<1> SUFFICES ASSUME ~LateDelivery /\ CoreInv /\ OnceInv, [Next]_vars PROVE OnceInv'
  OBVIOUS
<1> USE SubmissionAssumption, PresentRow, TypeStep
       DEF CoreInv, ProgressInv, TypeOK, CallState, Return, SetState, Label,
           MayRetry, AtGate, AtSave, Order, OrderState, Request, NoOrder,
           LedgerAhead, WriteAhead, RowProgress, IsLegalTransition,
           AllowedTransitions, ClosingStates, TerminalStates, Awaited,
           OnceInv, OneLiveRequest, LiveQuantity, IdSettlesState,
           RejectedNeverPlaced, CallOwnsDecision, NoLiveRequest, Settled,
           VenueKnowsOrder, AccountedFor
<1>1. ASSUME NEW d \in Decisions, SubmitDuplicate(d) PROVE OnceInv'
  BY <1>1 DEF SubmitDuplicate
<1>2. ASSUME NEW d \in Decisions, SubmitResume(d) PROVE OnceInv'
  BY <1>2 DEF SubmitResume
<1>3. ASSUME NEW d \in Decisions, NEW held \in Holdings, SubmitFresh(d, held)
      PROVE  OnceInv'
  <2>1. PICK q \in Nat \ {0} : ledger' = [ledger EXCEPT ![d] = PlannedOrder(q)]
    BY <1>3, FreshRow
  <2>2. /\ pc = "idle" /\ ledger[d].state = "NONE"
        /\ pc' = "savePlan" /\ cur' = d
        /\ UNCHANGED <<file, answer, wire, venue>>
    BY <1>3 DEF SubmitFresh
  <2> QED
    BY <2>1, <2>2 DEF PlannedOrder
<1>4. ASSUME NEW d \in Decisions, SubmitFreshRefused(d) PROVE OnceInv'
  BY <1>4 DEF SubmitFreshRefused
<1>5. CASE GateUnanswered
  BY <1>5 DEF GateUnanswered
<1>6. CASE GateAdopt
  BY <1>6 DEF GateAdopt
<1>7. CASE GateExhausted
  BY <1>7 DEF GateExhausted
<1>8. CASE GateRetry
  BY <1>8 DEF GateRetry
<1>9. ASSUME NEW held \in Holdings, GateReplan(held) PROVE OnceInv'
  <2>1. PICK q \in Nat \ {0} : /\ ledger' = [ledger EXCEPT ![cur].qty = q]
                               /\ cur \in ReduceOnly => q <= ledger[cur].qty
    BY <1>9, ReplannedRow
  <2>2. /\ cur \in Decisions /\ ledger[cur] \in Order
        /\ ledger[cur].state = "SUBMISSION_UNCERTAIN"
        /\ pc = "gateResume" /\ pc' = "savePlan" /\ answer = "none"
        /\ UNCHANGED <<file, cur, answer, wire, venue>>
    BY <1>9 DEF GateReplan
  <2>3. NoLiveRequest(cur)
    BY <1>9, <2>2 DEF GateReplan
  <2>4. /\ \A e \in Decisions \ {cur} : ledger'[e] = ledger[e]
        /\ ledger'[cur] = [ledger[cur] EXCEPT !.qty = q]
    BY <2>1, <2>2
  <2>5. OneLiveRequest' /\ CallOwnsDecision'
    BY <2>2, <2>3
  <2>6. LiveQuantity' /\ RejectedNeverPlaced'
    BY <2>2, <2>3, <2>4
  <2>7. IdSettlesState'
    BY <2>2, <2>4
  <2> QED
    BY <2>5, <2>6, <2>7
<1>10. CASE GateReplanRefused
  BY <1>10 DEF GateReplanRefused
<1>11. CASE SavePlan
  BY <1>11 DEF SavePlan
<1>12. CASE SaveAttempt
  BY <1>12 DEF SaveAttempt
<1>13. CASE SaveUncertain
  BY <1>13 DEF SaveUncertain
<1>14. CASE SaveResult
  BY <1>14 DEF SaveResult
<1>15. CASE SaveRaises
  BY <1>15 DEF SaveRaises
<1>16. CASE CallAccepted
  BY <1>16 DEF CallAccepted
<1>17. CASE CallRefused
  BY <1>17 DEF CallRefused
<1>18. CASE CallUncertain
  BY <1>18 DEF CallUncertain
<1>19. ASSUME NEW r \in wire, VenueAccept(r) PROVE OnceInv'
  BY <1>19 DEF VenueAccept
<1>20. ASSUME NEW r \in wire, VenueRefuse(r) PROVE OnceInv'
  <2>1. /\ wire' = wire \ {r}
        /\ answer' = IF Awaited(r) THEN "refused" ELSE answer
        /\ UNCHANGED <<ledger, file, pc, cur, venue>>
    BY <1>20 DEF VenueRefuse
  <2>2. OneLiveRequest' /\ LiveQuantity' /\ IdSettlesState' /\ RejectedNeverPlaced'
    BY <2>1
  <2>3. CallOwnsDecision'
    <3>1. CASE Awaited(r)
      BY <2>1, <3>1
    <3>2. CASE ~ Awaited(r)
      BY <2>1, <3>2
    <3> QED
      BY <3>1, <3>2
  <2> QED
    BY <2>2, <2>3
<1>21. ASSUME NEW r \in wire, RequestLost(r) PROVE OnceInv'
  BY <1>21 DEF RequestLost
<1>22. CASE Crash
  BY <1>22 DEF Crash
<1>23. CASE UNCHANGED vars
  BY <1>23 DEF vars
<1> QED
  BY <1>1, <1>2, <1>3, <1>4, <1>5, <1>6, <1>7, <1>8, <1>9, <1>10, <1>11,
     <1>12, <1>13, <1>14, <1>15, <1>16, <1>17, <1>18, <1>19, <1>20, <1>21,
     <1>22, <1>23
     DEF Next, SubmitStep, GateStep, SaveStep, CallStep, NetworkStep

-----------------------------------------------------------------------------
(* The invariant that needs nothing of the network. *)
THEOREM BaseInvariance == Spec => []BaseInv
<1>1. Init => BaseInv
  BY SubmissionAssumption
     DEF Init, BaseInv, CoreInv, ProgressInv, TypeOK, LedgerAhead, WriteAhead, AttemptsBounded,
         ExitsShrink, CallState, RowProgress, NoOrder, Label, UnsavedIsPlanned
<1>2. BaseInv /\ [Next]_vars => BaseInv'
  BY TypeStep, CoreStep, UnsavedStep DEF BaseInv, CoreInv
<1> QED
  BY <1>1, <1>2, PTL DEF Spec

(* Only a save changes the file, and it writes what memory holds. *)
LEMMA FileStep == [Next]_vars => file' \in {file, ledger}
  BY DEF Next, vars, SubmitStep, GateStep, SaveStep, CallStep, NetworkStep,
         SubmitDuplicate, SubmitResume, SubmitFresh, SubmitFreshRefused,
         GateUnanswered, GateAdopt, GateExhausted, GateRetry, GateReplan,
         GateReplanRefused, SavePlan, SaveAttempt, SaveUncertain, SaveResult,
         SaveRaises, CallAccepted, CallRefused, CallUncertain, VenueAccept,
         VenueRefuse, RequestLost, Crash

(***************************************************************************)
(* Type correctness of the submitter's state (TypeOK): the ledger, its     *)
(* file, the call in progress and the venue's orders keep their types,     *)
(* whatever crashes, failed saves and late requests do.                    *)
(***************************************************************************)
THEOREM TypeCorrect == Spec => []TypeOK
<1>1. BaseInv => TypeOK
  BY DEF BaseInv, CoreInv
<1> QED
  BY <1>1, BaseInvariance, PTL

(* Every request on the wire or at the venue is on disk, and numbered at   *)
(* most max_retries + 1, whatever the network does.                        *)
THEOREM WriteAheadAndBounded == Spec => [](WriteAhead /\ BoundedRequests)
<1>1. BaseInv => WriteAhead /\ BoundedRequests
  <2> SUFFICES ASSUME BaseInv, NEW r \in wire \cup venue
               PROVE  r.k <= MaxRetries + 1
    BY DEF BaseInv, CoreInv, ProgressInv, BoundedRequests
  <2>1. r.d \in Decisions /\ r.k \in Nat
    BY DEF BaseInv, CoreInv, ProgressInv, TypeOK, Request
  <2>2. file[r.d] # NoOrder /\ r.k <= file[r.d].attempts
    BY DEF BaseInv, CoreInv, ProgressInv, WriteAhead
  <2>3. file[r.d].attempts <= ledger[r.d].attempts
    BY <2>1, <2>2 DEF BaseInv, CoreInv, ProgressInv, LedgerAhead, RowProgress
  <2>4. ledger[r.d].attempts <= MaxRetries + 1
    BY <2>1 DEF BaseInv, CoreInv, ProgressInv, AttemptsBounded
  <2>5. file[r.d].attempts \in Nat /\ ledger[r.d].attempts \in Nat
    BY <2>1, PresentRow DEF BaseInv, CoreInv, ProgressInv, TypeOK
  <2> QED
    BY <2>1, <2>2, <2>3, <2>4, <2>5, SubmissionAssumption
<1> QED
  BY <1>1, BaseInvariance, PTL

(* The ledger file follows the transition table across failed saves and    *)
(* crashes.                                                                *)
THEOREM DurableLifecycleHolds == Spec => DurableLifecycle
<1>1. BaseInv /\ [Next]_vars
        => [\A d \in Decisions : RowProgress(file[d], file'[d])]_vars
  <2> SUFFICES ASSUME BaseInv, [Next]_vars, NEW d \in Decisions
               PROVE  RowProgress(file[d], file'[d])
    OBVIOUS
  <2>1. file[d] \in Order \cup {NoOrder}
    BY DEF BaseInv, CoreInv, ProgressInv, TypeOK
  <2>2. CASE file' = file
    BY <2>1, <2>2, PresentRow DEF RowProgress, IsLegalTransition
  <2>3. CASE file' = ledger
    BY <2>3 DEF BaseInv, CoreInv, ProgressInv, LedgerAhead
  <2> QED
    BY <2>2, <2>3, FileStep
<1> QED
  BY <1>1, BaseInvariance, PTL DEF Spec, DurableLifecycle

(* A protective exit never asks for more than it did before. *)
THEOREM ExitsNeverGrow == Spec => ReduceOnlyNeverGrows
<1>1. BaseInv /\ [Next]_vars
        => [\A d \in ReduceOnly : file[d] # NoOrder => file'[d].qty <= file[d].qty]_vars
  <2> SUFFICES ASSUME BaseInv, [Next]_vars, NEW d \in ReduceOnly, file[d] # NoOrder
               PROVE  file'[d].qty <= file[d].qty
    OBVIOUS
  <2>1. file[d].qty \in Nat
    BY PresentRow, SubmissionAssumption DEF BaseInv, CoreInv, ProgressInv, TypeOK
  <2> QED
    BY <2>1, FileStep DEF BaseInv, CoreInv, ProgressInv, ExitsShrink
<1> QED
  BY <1>1, BaseInvariance, PTL DEF Spec, ReduceOnlyNeverGrows

-----------------------------------------------------------------------------
(* The retry gate's invariant, when no request reaches the venue after the *)
(* venue was asked about it.                                               *)
THEOREM OnceInvariance ==
    ASSUME ~ LateDelivery
    PROVE  Spec => []OnceInv
<1>1. Init => OnceInv
  BY DEF Init, OnceInv, OneLiveRequest, LiveQuantity, IdSettlesState,
         RejectedNeverPlaced, CallOwnsDecision, NoOrder
<1>2. BaseInv /\ OnceInv /\ [Next]_vars => OnceInv'
  BY OnceStep DEF BaseInv
<1> QED
  BY <1>1, <1>2, BaseInvariance, PTL DEF Spec

(* One decision produces at most one venue order, across restarts, and an  *)
(* order the ledger calls REJECTED never reaches the venue.                *)
THEOREM AtMostOnce ==
    ASSUME ~ LateDelivery
    PROVE  Spec => [](AtMostOneOrder /\ RejectedNeverPlaced)
<1>1. OnceInv => AtMostOneOrder /\ RejectedNeverPlaced
  BY DEF OnceInv, OneLiveRequest, AtMostOneOrder
<1> QED
  BY <1>1, OnceInvariance, PTL

(* The phases of the file's rows move as OncePerDecision's Record allows. *)
LEMMA RecordStep ==
    ASSUME BaseInv, OnceInv, file' = ledger, venue' = venue
    PROVE  Abs!Record
<1>1. \A d \in Decisions : PhaseOf(ledger[d]) \in Abs!Phase
  BY DEF Abs!Phase, PhaseOf
<1>2. ASSUME NEW d \in Decisions
      PROVE  \/ PhaseOf(ledger[d]) = PhaseOf(file[d])
             \/ PhaseOf(file[d]) = "new" /\ PhaseOf(ledger[d]) = "claimed"
             \/ /\ PhaseOf(file[d]) = "claimed" /\ PhaseOf(ledger[d]) = "refused"
                /\ d \notin {r.d : r \in venue}
  <2>1. file[d] \in Order \cup {NoOrder} /\ ledger[d] \in Order \cup {NoOrder}
    BY DEF BaseInv, CoreInv, ProgressInv, TypeOK
  <2>2. /\ RowProgress(file[d], ledger[d])
        /\ file[d] = NoOrder => ledger[d].state \in {"NONE", "PLANNED"}
    BY DEF BaseInv, CoreInv, ProgressInv, LedgerAhead, UnsavedIsPlanned
  <2>3. file[d].state = "REJECTED" => ledger[d].state = "REJECTED"
    BY <2>1, <2>2, PresentRow
       DEF RowProgress, IsLegalTransition, AllowedTransitions, NoOrder
  <2>4. ledger[d].state = "NONE" => file[d].state = "NONE"
    BY <2>1, <2>2, PresentRow DEF RowProgress
  <2>5. file[d].state = "NONE" => ledger[d].state \in {"NONE", "PLANNED"}
    BY <2>1, <2>2, PresentRow
  <2>6. ledger[d].state = "REJECTED" => d \notin {r.d : r \in venue}
    BY DEF OnceInv, RejectedNeverPlaced
  <2> QED
    BY <2>3, <2>4, <2>5, <2>6 DEF PhaseOf
<1> QED
  BY <1>1, <1>2 DEF Abs!Record

(* The detailed submission implements OncePerDecision. *)
THEOREM Refinement ==
    ASSUME ~ LateDelivery
    PROVE  Spec => ImplementsOncePerDecision
<1>1. Init => Abs!AbsInit
  BY DEF Init, Abs!AbsInit, PhaseOf, NoOrder
<1>2. BaseInv /\ OnceInv /\ [Next]_vars => [Abs!AbsNext]_(Abs!absVars)
  <2> SUFFICES ASSUME BaseInv, OnceInv, [Next]_vars
               PROVE  [Abs!AbsNext]_(Abs!absVars)
    OBVIOUS
  <2>1. ASSUME NEW r \in wire, VenueAccept(r)
        PROVE  Abs!Place(r.d)
    <3>1. file' = file /\ venue' = venue \cup {r}
      BY <2>1 DEF VenueAccept
    <3>2. file[r.d] # NoOrder /\ file[r.d].state # "REJECTED" /\ r.d \in Decisions
      BY DEF BaseInv, CoreInv, ProgressInv, OnceInv, WriteAhead, RejectedNeverPlaced,
         TypeOK, Request
    <3>3. PhaseOf(file[r.d]) = "claimed"
      BY <3>2, PresentRow DEF PhaseOf, BaseInv, CoreInv, ProgressInv, TypeOK
    <3>4. r.d \notin {x.d : x \in venue}
      BY DEF OnceInv, OneLiveRequest
    <3> QED
      BY <3>1, <3>2, <3>3, <3>4 DEF Abs!Place
  <2>2. CASE ~ \E r \in wire : VenueAccept(r)
    <3>1. venue' = venue
      BY <2>2
         DEF Next, vars, SubmitStep, GateStep, SaveStep, CallStep,
             NetworkStep,
         SubmitDuplicate, SubmitResume, SubmitFresh, SubmitFreshRefused,
         GateUnanswered, GateAdopt, GateExhausted, GateRetry, GateReplan,
         GateReplanRefused, SavePlan, SaveAttempt, SaveUncertain, SaveResult,
         SaveRaises, CallAccepted, CallRefused, CallUncertain,
         VenueRefuse, RequestLost, Crash
    <3>2. CASE file' = file
      BY <3>1, <3>2 DEF Abs!absVars
    <3>3. CASE file' = ledger
      BY <3>1, <3>3, RecordStep DEF Abs!AbsNext
    <3> QED
      BY <3>2, <3>3, FileStep
  <2> QED
    BY <2>1, <2>2 DEF Abs!AbsNext, BaseInv, CoreInv, ProgressInv, TypeOK, Request
<1> QED
  BY <1>1, <1>2, BaseInvariance, OnceInvariance, PTL
     DEF Spec, ImplementsOncePerDecision, Abs!AbsSpec

-----------------------------------------------------------------------------
(***************************************************************************)
(* The execution plane.                                                    *)
(***************************************************************************)
Task ==
    {"boot", "idle", "submitting", "fill", "saveFill", "checkpoint",
     "fetchTrades", "apply", "saveLedger", "saveBook", "nav"}

Book == [Decisions -> [Lot -> Nat]]

PlaneTypes ==
    /\ task \in Task
    /\ subject \in Decisions \cup {None}
    /\ book \in Book /\ position \in Nat
    /\ bookFile \in [book : Book, position : Nat]
    /\ restarts \in Nat

(* The planner never exceeds the bound on a quantity. *)
QuantityInv ==
    /\ \A d \in Decisions : ledger[d].qty <= MaxQuantity /\ file[d].qty <= MaxQuantity
    /\ \A r \in wire \cup venue : r.qty <= MaxQuantity

(* Trades and rows are those of orders the venue accepted. *)
VenueInv ==
    /\ IsFiniteSet(trades)
    /\ \A t \in trades : t.lot \in VenueLot /\ \E o \in venue : o.d = t.d /\ o.k = t.k
    /\ pending \subseteq trades
    /\ \A row \in rows :
          /\ row.order \in venue
          /\ row.status \in {"OPEN", "PARTIALLY_FILLED", "FILLED", "CANCELLED"}

(* The submitter works for the decision of the cycle, which is new: it has *)
(* no fill until the cycle books its paper fill.                           *)
CycleInv ==
    /\ task = "submitting" <=> pc # "idle"
    /\ task = "submitting" => cur = subject
    /\ task \in {"submitting", "fill", "saveFill"} => subject \in Decisions
    /\ task \in {"submitting", "fill"} => ledger[subject].fills = {}

PlaneInv == CoreInv /\ PlaneTypes /\ QuantityInv /\ VenueInv /\ CycleInv

-----------------------------------------------------------------------------
(* A refused lot is a sell that the ledger recorded (record_fill before    *)
(* apply_fill).                                                            *)
RefusedSells ==
    \A d \in Decisions, lot \in Lot :
        <<d, lot>> \in refused => d \in Sells /\ lot \in ledger[d].fills

(* Until the first restart the book holds the lots the ledger recorded,    *)
(* those it refused apart.                                                 *)
ExactInv == AppliedUnlessRefused /\ (restarts = 0 => RefusedSells)

-----------------------------------------------------------------------------
PaperBooked(b, d) == \E lot \in Lot \ VenueLot : b[d][lot] # 0

VenueBooked(b, d) == \E lot \in VenueLot : b[d][lot] # 0

(* The paper fill of the decision is booked and not yet in the file. *)
Unsaved(d) == task = "saveFill" /\ subject = d

(* What is booked has a row, on disk once the cycle's save is past: so a   *)
(* decision without a row has nothing in the book or in its checkpoint.    *)
BookedHasRow ==
    \A d \in Decisions :
        /\ PaperBooked(book, d) \/ VenueBooked(book, d) =>
              ledger[d] # NoOrder /\ (file[d] # NoOrder \/ Unsaved(d))
        /\ PaperBooked(bookFile.book, d) \/ VenueBooked(bookFile.book, d) =>
              file[d] # NoOrder
        /\ task \in {"submitting", "fill"} /\ subject = d =>
              ~ PaperBooked(book, d) /\ ~ VenueBooked(book, d)

(* The paper fill of an entry makes its row a local paper fill, in the     *)
(* file before the checkpoint has the fill, and such a row stays one.      *)
PaperFillMarked ==
    \A d \in Decisions \ ReduceOnly :
        /\ PaperBooked(book, d) =>
              /\ IsLocalPaperFill(ledger[d])
              /\ IsLocalPaperFill(file[d]) \/ Unsaved(d)
              /\ ~ VenueBooked(book, d)
        /\ PaperBooked(bookFile.book, d) =>
              IsLocalPaperFill(file[d]) /\ ~ VenueBooked(bookFile.book, d)
        /\ IsLocalPaperFill(file[d]) => IsLocalPaperFill(ledger[d])

SourceInv == BookedHasRow /\ PaperFillMarked

-----------------------------------------------------------------------------
(* A row a call may still change. *)
InCall == {"PLANNED", "SUBMISSION_UNCERTAIN"}

(* The decisions whose orders are filled from one source: all but the      *)
(* protective exits of a service with local paper fills.                   *)
OneSource(d) == d \notin ReduceOnly \/ ~ paper

(* The requests of a decision all ask for the quantity of its row, so that *)
(* its number identifies an order.                                         *)
OrderQuantity ==
    /\ \A d \in Decisions : file[d] # NoOrder => ledger[d].qty = file[d].qty
    /\ \A r \in wire \cup venue : r.qty = file[r.d].qty

(* The venue never fills more than was ordered. *)
TradeLots ==
    \A t \in trades : \A o \in venue : o.d = t.d /\ o.k = t.k => t.lot <= o.qty

(* An acceptance the call is about to read is of its last request. *)
AnswerInv ==
    pc = "call" /\ answer = "accepted" =>
        \E o \in venue : o.d = cur /\ o.k = ledger[cur].attempts

(* The venue will fill no more of the order. *)
Final(o) == o \in closed \/ Cardinality(TradesOf(o)) = o.qty

(* A row with a venue order id is of an accepted order and has left the    *)
(* submitter's hands; its fills are lots of that order.                    *)
RowSound(d, row) ==
    /\ row.state \in InCall => row.vid = 0
    /\ row.vid # 0 => \E o \in venue : o.d = d /\ o.k = row.vid
    /\ OneSource(d) /\ ~ IsLocalPaperFill(row) => row.fills \subseteq 1 .. row.qty

(* The fills a closed row lacks are fills the venue will never make. *)
RowComplete(d, row) ==
    OneSource(d) /\ row.state \in TerminalStates /\ ~ IsLocalPaperFill(row) =>
        \A o \in venue : o.d = d /\ o.k = row.vid =>
            \/ 1 .. o.qty \subseteq row.fills
            \/ Final(o) /\ \A t \in TradesOf(o) : t.lot \in row.fills

RowGood(d, row) == RowSound(d, row) /\ RowComplete(d, row)

RowsInv == \A d \in Decisions : \A row \in {ledger[d], file[d]} : RowGood(d, row)

(* A pass holds a final status only of an order that was final when it was *)
(* fetched, before the trades: each of its trades is still to be handled,  *)
(* or recorded.                                                            *)
Recorded(t) ==
    \/ IsLocalPaperFill(ledger[t.d])
    \/ AccountedFor(t) => t.lot \in ledger[t.d].fills

PassInv ==
    \A row \in rows : row.status \in {"FILLED", "CANCELLED"} =>
        /\ Final(row.order)
        /\ task = "apply" =>
              \A t \in TradesOf(row.order) : t \in pending \/ Recorded(t)

ClosedInv == OrderQuantity /\ TradeLots /\ AnswerInv /\ RowsInv /\ PassInv

-----------------------------------------------------------------------------
(* Memory has the fills of the file. *)
MemoryAhead == \A d \in Decisions : file[d].fills \subseteq ledger[d].fills

(* Between the application of a fill and the save of the ledger the book   *)
(* is ahead of the file.                                                   *)
Ahead(d) == task \in {"apply", "saveLedger"} \/ Unsaved(d)

(* A lot that no exception stranded is in the book, or in its checkpoint,  *)
(* once and with its record, and the checkpoint is never ahead of the      *)
(* ledger file.                                                            *)
BookedOnce(d, lot) ==
    /\ book[d][lot] # 0 =>
          /\ book[d][lot] = 1 /\ lot \in ledger[d].fills
          /\ lot \in file[d].fills \/ Ahead(d)
    /\ bookFile.book[d][lot] # 0 =>
          bookFile.book[d][lot] = 1 /\ lot \in file[d].fills

BookedOnceInv ==
    \A d \in Decisions, lot \in Lot : <<d, lot>> \notin stranded => BookedOnce(d, lot)

-----------------------------------------------------------------------------
(***************************************************************************)
(* Rows.                                                                   *)
(***************************************************************************)

(* What a fill or a venue status may make of a row. *)
RowWritten(old, new) ==
    /\ new \in Order
    /\ new.state # "SUBMISSION_UNCERTAIN"
    /\ new.attempts = old.attempts /\ new.vid = old.vid
    /\ old # NoOrder => IsLegalTransition(old.state, new.state) /\ new.qty = old.qty

(* Fills and statuses, written while no call is in progress, leave the     *)
(* submitter's invariant alone.                                            *)
LEMMA LedgerWrite ==
    ASSUME CoreInv, pc = "idle",
           UNCHANGED <<file, pc, cur, answer, result, wire, venue>>,
           ledger' \in [Decisions -> Order \cup {NoOrder}],
           \A d \in Decisions :
              ledger'[d] = ledger[d] \/ RowWritten(ledger[d], ledger'[d])
    PROVE  CoreInv'
<1> USE PresentRow DEF CoreInv, ProgressInv
<1>1. TypeOK'
  BY DEF TypeOK
<1>2. ASSUME NEW d \in Decisions
      PROVE  /\ RowProgress(file[d], ledger'[d])
             /\ file[d] = NoOrder => ledger'[d].state # "SUBMISSION_UNCERTAIN"
  <2>1. /\ file[d] \in Order \cup {NoOrder} /\ ledger[d] \in Order \cup {NoOrder}
        /\ ledger'[d] \in Order \cup {NoOrder}
    BY DEF TypeOK
  <2>2. /\ RowProgress(file[d], ledger[d])
        /\ file[d] = NoOrder => ledger[d].state # "SUBMISSION_UNCERTAIN"
    BY DEF LedgerAhead
  <2>3. CASE ledger'[d] = ledger[d]
    BY <2>2, <2>3
  <2>4. CASE RowWritten(ledger[d], ledger'[d])
    <3>1. RowProgress(ledger[d], ledger'[d])
      BY <2>1, <2>4 DEF RowWritten, RowProgress, Order, NoOrder
    <3> QED
      BY <2>1, <2>2, <2>4, <3>1, RowProgressTransitive DEF RowWritten
  <2> QED
    BY <2>3, <2>4
<1>3. LedgerAhead'
  BY <1>2 DEF LedgerAhead
<1>4. WriteAhead'
  BY DEF WriteAhead
<1>5. AttemptsBounded'
  BY DEF AttemptsBounded, RowWritten
<1>6. ExitsShrink'
  <2> SUFFICES ASSUME NEW d \in ReduceOnly, file[d] # NoOrder
               PROVE  ledger'[d].qty <= file[d].qty
    BY DEF ExitsShrink
  <2>1. d \in Decisions
    BY SubmissionAssumption
  <2>2. ledger[d].qty <= file[d].qty /\ ledger[d] # NoOrder
    BY <2>1 DEF ExitsShrink, LedgerAhead, RowProgress
  <2> QED
    BY <2>1, <2>2 DEF RowWritten
<1>7. CallState'
  BY DEF CallState
<1> QED
  BY <1>1, <1>3, <1>4, <1>5, <1>6, <1>7

(* A save between two calls. *)
LEMMA LedgerSaved ==
    ASSUME CoreInv, pc = "idle", file' = ledger,
           UNCHANGED <<ledger, pc, cur, answer, result, wire, venue>>
    PROVE  CoreInv'
<1> USE PresentRow DEF CoreInv, ProgressInv
<1>1. TypeOK'
  BY DEF TypeOK
<1>2. LedgerAhead'
  BY DEF LedgerAhead, RowProgress, IsLegalTransition, TypeOK
<1>3. WriteAhead'
  <2> SUFFICES ASSUME NEW r \in wire \cup venue
               PROVE  ledger[r.d] # NoOrder /\ r.k <= ledger[r.d].attempts
    BY DEF WriteAhead
  <2>1. r.d \in Decisions /\ r.k \in Nat
    BY DEF TypeOK, Request
  <2>2. file[r.d] # NoOrder /\ r.k <= file[r.d].attempts
    BY DEF WriteAhead
  <2>3. ledger[r.d] # NoOrder /\ file[r.d].attempts <= ledger[r.d].attempts
    BY <2>1, <2>2 DEF LedgerAhead, RowProgress
  <2>4. file[r.d].attempts \in Nat /\ ledger[r.d].attempts \in Nat
    BY <2>1 DEF TypeOK
  <2> QED
    BY <2>1, <2>2, <2>3, <2>4
<1>4. AttemptsBounded' /\ CallState'
  BY DEF AttemptsBounded, CallState
<1>5. ExitsShrink'
  BY SubmissionAssumption DEF ExitsShrink, TypeOK
<1> QED
  BY <1>1, <1>2, <1>3, <1>4, <1>5

(* record_fill's effect on a live row. *)
LEMMA FilledRow ==
    ASSUME NEW row \in Order, NEW lots \in SUBSET Nat,
           IsLegalTransition(row.state, StateAfterFill(row, lots))
    PROVE  RowWritten(row, WithFill(row, lots))
<1> DEFINE st == StateAfterFill(row, lots)
<1>1. st \in {"FILLED", "PARTIALLY_FILLED"}
  BY DEF StateAfterFill
<1> HIDE DEF st
<1>2. RowWritten(row, [state |-> st, vid |-> row.vid, attempts |-> row.attempts,
                       qty |-> row.qty, fills |-> row.fills \cup lots])
  BY <1>1 DEF RowWritten, Order, OrderState, st
<1> QED
  BY <1>2 DEF WithFill, st

(* A new cycle's submission is one that Submission allows. *)
LEMMA FreshSubmission ==
    ASSUME NEW d \in Decisions, position \in Nat, SubmitFresh(d, position)
    PROVE  \E held \in Holdings : SubmitFresh(d, held)
<1>1. CASE position \in Holdings
  BY <1>1
<1>2. CASE position \notin Holdings
  <2>1. position > MaxQuantity
    BY <1>2, SubmissionAssumption DEF Holdings
  <2>2. ASSUME NEW quantity \in Quantities
        PROVE  PlannedQuantity(quantity, ReduceOnlyCap(d, position, 0))
                  = PlannedQuantity(quantity, ReduceOnlyCap(d, None, 0))
    <3>1. quantity < position /\ position # None
      BY <2>1, SubmissionAssumption DEF Quantities
    <3> QED
      BY <3>1 DEF PlannedQuantity, ReduceOnlyCap
  <2>3. ReduceOnlyCap(d, None, 0) # 0
    BY SubmissionAssumption DEF ReduceOnlyCap
  <2>4. SubmitFresh(d, None)
    BY <2>2, <2>3 DEF SubmitFresh
  <2> QED
    BY <2>4 DEF Holdings
<1> QED
  BY <1>1, <1>2

-----------------------------------------------------------------------------
(***************************************************************************)
(* What the steps do to the ledger and to the book.                        *)
(***************************************************************************)

(* A step of the submitter is one of Submission, and changes neither a     *)
(* fill, nor a quantity, nor a row that is settled.                        *)
LEMMA SubmitterEffect ==
    ASSUME CoreInv, SubmitterStep
    PROVE  /\ Next
           /\ \A e \in Decisions :
                 /\ ledger'[e].fills = ledger[e].fills
                 /\ ledger'[e].qty = ledger[e].qty
                 /\ ledger[e] # NoOrder => ledger'[e] # NoOrder
                 /\ ledger[e].state \notin InCall => ledger'[e] = ledger[e]
           /\ file' \in {file, ledger}
           /\ venue' = venue
           /\ cur \in Decisions
           /\ \A r \in wire' : r \in wire \/ r.qty = ledger[cur].qty
           /\ pc' = "idle" \/ cur' = cur
<1> USE PresentRow
       DEF CoreInv, ProgressInv, TypeOK, CallState, Return, SetState, AtGate, AtSave,
           Order, NoOrder, InCall, MayRetry
<1>1. Next
  BY DEF SubmitterStep, Next, GateStep
<1>2. pc # "idle" /\ cur \in Decisions /\ ledger[cur] \in Order \cup {NoOrder}
  BY DEF SubmitterStep, GateUnanswered, GateAdopt, GateExhausted, GateRetry, CallStep,
         CallAccepted, CallRefused, CallUncertain, SaveStep, SavePlan, SaveAttempt,
         SaveUncertain, SaveResult, SaveRaises
<1>3. CASE GateUnanswered \/ SaveUncertain \/ SaveResult \/ SaveRaises
  BY <1>1, <1>2, <1>3 DEF GateUnanswered, SaveUncertain, SaveResult, SaveRaises
<1>4. CASE GateAdopt
  BY <1>1, <1>2, <1>4 DEF GateAdopt
<1>5. CASE GateExhausted
  BY <1>1, <1>2, <1>5 DEF GateExhausted
<1>6. CASE GateRetry
  BY <1>1, <1>2, <1>6 DEF GateRetry
<1>7. CASE SavePlan
  BY <1>1, <1>2, <1>7 DEF SavePlan
<1>8. CASE SaveAttempt
  BY <1>1, <1>2, <1>8 DEF SaveAttempt
<1>9. CASE CallAccepted
  BY <1>1, <1>2, <1>9 DEF CallAccepted
<1>10. CASE CallRefused
  BY <1>1, <1>2, <1>10 DEF CallRefused
<1>11. CASE CallUncertain
  BY <1>1, <1>2, <1>11 DEF CallUncertain
<1> QED
  BY <1>3, <1>4, <1>5, <1>6, <1>7, <1>8, <1>9, <1>10, <1>11
     DEF SubmitterStep, CallStep, SaveStep

(* The lots of a paper fill. *)
LEMMA PaperLotsType ==
    ASSUME NEW q \in Nat, q <= MaxQuantity
    PROVE  /\ PaperLots(q) \subseteq Lot \ VenueLot /\ PaperLots(q) \subseteq Nat
           /\ IsFiniteSet(PaperLots(q)) /\ Cardinality(PaperLots(q)) = q
           /\ q # 0 => PaperLots(q) # {}
<1>1. MaxQuantity \in Nat
  BY SubmissionAssumption
<1>2. /\ IsFiniteSet((MaxQuantity + 1) .. (MaxQuantity + q))
      /\ Cardinality((MaxQuantity + 1) .. (MaxQuantity + q)) =
            IF MaxQuantity + 1 > MaxQuantity + q THEN 0
            ELSE (MaxQuantity + q) - (MaxQuantity + 1) + 1
  BY <1>1, FS_Interval
<1>3. q # 0 => MaxQuantity + 1 \in PaperLots(q)
  BY <1>1 DEF PaperLots
<1>4. PaperLots(q) \subseteq Lot \ VenueLot /\ PaperLots(q) \subseteq Nat
  BY <1>1 DEF PaperLots, Lot, VenueLot
<1>5. IsFiniteSet(PaperLots(q))
  BY <1>2 DEF PaperLots
<1>6. Cardinality(PaperLots(q)) =
         IF MaxQuantity + 1 > MaxQuantity + q THEN 0
         ELSE (MaxQuantity + q) - (MaxQuantity + 1) + 1
  BY <1>2 DEF PaperLots
<1>7. Cardinality(PaperLots(q)) = q
  BY <1>1, <1>6
<1> QED
  BY <1>3, <1>4, <1>5, <1>7

(* The plan of a cycle. *)
LEMMA PlanOfCycle ==
    ASSUME NEW d \in Decisions, position \in Nat, NEW quantity \in Quantities,
           ReduceOnlyCap(d, position, 0) # 0
    PROVE  /\ PlannedQuantity(quantity, ReduceOnlyCap(d, position, 0)) \in Nat \ {0}
           /\ PlannedQuantity(quantity, ReduceOnlyCap(d, position, 0)) <= MaxQuantity
<1>1. ReduceOnlyCap(d, position, 0) \in {None, position}
  BY DEF ReduceOnlyCap
<1> QED
  BY <1>1, SubmissionAssumption DEF PlannedQuantity, Quantities

(* PaperFillSimulator.apply fills a row without fills, that of an entry    *)
(* completely, or leaves the row it registered as PLANNED.                 *)
LEMMA FillEffect ==
    ASSUME PlaneInv, FillApplied
    PROVE  /\ subject \in Decisions /\ ledger[subject].fills = {}
           /\ ledger[subject].state \notin TerminalStates
           /\ ledger' \in [Decisions -> Order \cup {NoOrder}]
           /\ \A e \in Decisions \ {subject} : ledger'[e] = ledger[e]
           /\ \/ ledger'[subject] = ledger[subject]
              \/ RowWritten(ledger[subject], ledger'[subject])
           /\ ledger'[subject] # NoOrder
           /\ ledger'[subject].qty <= MaxQuantity
           /\ \/ /\ UNCHANGED <<book, position>>
                 /\ ledger'[subject].fills = {}
                 /\ ledger'[subject].state \notin TerminalStates
              \/ \E lots \in SUBSET (Lot \ VenueLot) :
                    /\ Cardinality(lots) \in Nat
                    /\ ApplyFillAccepts(subject, lots) /\ ApplyFill(subject, lots)
                    /\ ledger'[subject].fills = lots
                    /\ subject \notin ReduceOnly =>
                          ledger'[subject].state = "FILLED" /\ lots # {}
<1>1. /\ subject \in Decisions /\ ledger[subject].fills = {}
      /\ ledger \in [Decisions -> Order \cup {NoOrder}]
      /\ position \in Nat
  BY DEF PlaneInv, CoreInv, TypeOK, CycleInv, PlaneTypes, FillApplied
<1>2. PICK quantity \in Quantities :
          LET cap     == ReduceOnlyCap(subject, position, 0)
              planned == PlannedQuantity(quantity, cap)
              order   == IF Row = NoOrder THEN PlannedOrder(planned) ELSE Row
              lots    == PaperLots(FillQuantity(planned))
          IN /\ cap # 0
             /\ \/ /\ ApplyFillAccepts(subject, lots)
                   /\ ledger' = [ledger EXCEPT ![subject] = WithFill(order, lots)]
                   /\ ApplyFill(subject, lots)
                \/ /\ ~ ApplyFillAccepts(subject, lots)
                   /\ ledger' = [ledger EXCEPT ![subject] = order]
                   /\ UNCHANGED <<book, position>>
  BY DEF FillApplied
<1> DEFINE planned == PlannedQuantity(quantity, ReduceOnlyCap(subject, position, 0))
           order   == IF Row = NoOrder THEN PlannedOrder(planned) ELSE Row
           q       == FillQuantity(planned)
<1>3. planned \in Nat \ {0} /\ planned <= MaxQuantity
  BY <1>1, <1>2, PlanOfCycle
<1>4. \/ /\ ApplyFillAccepts(subject, PaperLots(q))
         /\ ledger' = [ledger EXCEPT ![subject] = WithFill(order, PaperLots(q))]
         /\ ApplyFill(subject, PaperLots(q))
      \/ /\ ledger' = [ledger EXCEPT ![subject] = order]
         /\ UNCHANGED <<book, position>>
  BY <1>2
<1> HIDE DEF planned
<1>5. ledger[subject].state \notin TerminalStates
  BY DEF FillApplied, Row
<1>6. /\ order \in Order /\ order.fills = {} /\ order.state \notin TerminalStates
      /\ order.qty \in Nat \ {0} /\ order.qty <= MaxQuantity
  <2>1. CASE Row = NoOrder
    <3>1. order = PlannedOrder(planned)
      BY <2>1
    <3> HIDE DEF order
    <3> QED
      BY <1>3, <3>1 DEF PlannedOrder, Order, OrderState, TerminalStates
  <2>2. CASE Row # NoOrder
    <3>1. order = ledger[subject] /\ order \in Order
      BY <1>1, <2>2 DEF Row
    <3>2. order.qty <= MaxQuantity
      BY <1>1, <3>1 DEF PlaneInv, QuantityInv
    <3> HIDE DEF order
    <3> QED
      BY <1>1, <1>5, <3>1, <3>2 DEF Order
  <2> QED
    BY <2>1, <2>2
<1>7. /\ q \in Nat \ {0} /\ q <= MaxQuantity
      /\ subject \notin ReduceOnly => q = order.qty
  <2>1. CASE Row = NoOrder
    <3>1. q = planned /\ order = PlannedOrder(planned)
      BY <2>1 DEF FillQuantity
    <3>2. order.qty = planned
      BY <3>1 DEF PlannedOrder
    <3> QED
      BY <1>3, <3>1, <3>2
  <2>2. CASE Row # NoOrder
    <3>1. order = Row
      BY <2>2
    <3>2. Row.qty \in Nat \ {0} /\ Row.qty <= MaxQuantity
      BY <1>6, <3>1
    <3> HIDE DEF order
    <3> QED
      BY <1>3, <2>2, <3>1, <3>2 DEF FillQuantity
  <2> QED
    BY <2>1, <2>2
<1>8. /\ PaperLots(q) \subseteq Lot \ VenueLot /\ PaperLots(q) \subseteq Nat
      /\ Cardinality(PaperLots(q)) = q /\ PaperLots(q) # {}
  BY <1>7, PaperLotsType
<1>9. Row = NoOrder => order.state = "PLANNED" /\ order.attempts = 0 /\ order.vid = 0
  BY DEF PlannedOrder
<1>10. Row # NoOrder => order = Row
  OBVIOUS
<1> HIDE DEF order, q
<1>11. CASE ledger' = [ledger EXCEPT ![subject] = order] /\ UNCHANGED <<book, position>>
  <2>1. /\ ledger'[subject] = order
        /\ \A e \in Decisions \ {subject} : ledger'[e] = ledger[e]
        /\ ledger' \in [Decisions -> Order \cup {NoOrder}]
    BY <1>1, <1>6, <1>11
  <2>2. order # NoOrder
    BY <1>6 DEF Order, NoOrder
  <2>3. order = ledger[subject] \/ RowWritten(ledger[subject], order)
    BY <1>6, <1>9, <1>10 DEF Row, RowWritten, NoOrder
  <2> QED
    BY <1>1, <1>5, <1>6, <1>11, <2>1, <2>2, <2>3
<1>12. CASE /\ ApplyFillAccepts(subject, PaperLots(q))
            /\ ledger' = [ledger EXCEPT ![subject] = WithFill(order, PaperLots(q))]
            /\ ApplyFill(subject, PaperLots(q))
  <2> DEFINE row == WithFill(order, PaperLots(q))
  <2>1. StateAfterFill(order, PaperLots(q)) \in {"FILLED", "PARTIALLY_FILLED"}
    BY DEF StateAfterFill
  <2>2. IsLegalTransition(order.state, StateAfterFill(order, PaperLots(q)))
    BY <1>6, <2>1
       DEF Order, OrderState, IsLegalTransition, AllowedTransitions, ClosingStates,
           TerminalStates
  <2>3. RowWritten(order, row)
    BY <1>6, <1>8, <2>2, FilledRow
  <2>4. /\ row.fills = PaperLots(q) /\ row.qty = order.qty
        /\ row.state = StateAfterFill(order, PaperLots(q))
    BY <1>6 DEF WithFill
  <2>5. q = order.qty => row.state = "FILLED"
    <3>1. Cardinality(order.fills) = 0
      BY <1>6, FS_EmptySet
    <3> QED
      BY <1>6, <1>7, <1>8, <2>4, <3>1 DEF StateAfterFill, FilledQuantity
  <2> HIDE DEF row
  <2>6. row \in Order /\ row # NoOrder
    BY <2>3 DEF RowWritten, Order, NoOrder
  <2>7. RowWritten(ledger[subject], row)
    <3>1. CASE Row = NoOrder
      BY <1>9, <2>3, <3>1 DEF Row, RowWritten, NoOrder
    <3>2. CASE Row # NoOrder
      BY <1>10, <2>3, <3>2 DEF Row
    <3> QED
      BY <3>1, <3>2
  <2>8. /\ ledger'[subject] = row
        /\ \A e \in Decisions \ {subject} : ledger'[e] = ledger[e]
        /\ ledger' \in [Decisions -> Order \cup {NoOrder}]
    BY <1>1, <1>12, <2>6 DEF row
  <2>9. Cardinality(PaperLots(q)) \in Nat
    BY <1>7, <1>8
  <2> QED
    BY <1>1, <1>5, <1>6, <1>7, <1>8, <1>12, <2>4, <2>5, <2>6, <2>7, <2>8, <2>9
<1> QED
  BY <1>4, <1>11, <1>12

(* A trade a pass applies is of an order whose row is on disk. *)
LEMMA TradeEffect ==
    ASSUME PlaneInv, NEW t \in pending, ApplyTrade(t)
    PROVE  /\ t.d \in Decisions /\ t.lot \in VenueLot
           /\ ledger[t.d] # NoOrder /\ file[t.d] # NoOrder
           /\ ~ IsLocalPaperFill(ledger[t.d]) /\ t.lot \notin ledger[t.d].fills
           /\ ledger' \in [Decisions -> Order \cup {NoOrder}]
           /\ \A e \in Decisions \ {t.d} : ledger'[e] = ledger[e]
           /\ RowWritten(ledger[t.d], ledger'[t.d])
           /\ ledger'[t.d].fills = ledger[t.d].fills \cup {t.lot}
           /\ ledger'[t.d].state = StateAfterFill(ledger[t.d], {t.lot})
           /\ ledger[t.d].vid = t.k
           /\ Cardinality({t.lot}) = 1
           /\ \/ /\ ApplyFillAccepts(t.d, {t.lot}) /\ ApplyFill(t.d, {t.lot})
                 /\ refused' = refused
              \/ /\ t.d \in Sells /\ UNCHANGED <<book, position>>
                 /\ refused' = refused \cup {<<t.d, t.lot>>}
<1>1. PICK o \in venue : o.d = t.d /\ o.k = t.k
  BY DEF PlaneInv, VenueInv
<1>2. o \in Request /\ t.lot \in VenueLot
  BY DEF PlaneInv, VenueInv, CoreInv, TypeOK
<1>3. t.d \in Decisions /\ t.k \in Nat \ {0}
  BY <1>1, <1>2 DEF Request
<1>4. ledger \in [Decisions -> Order \cup {NoOrder}]
  BY DEF PlaneInv, CoreInv, TypeOK
<1>5. /\ ledger[t.d].vid = t.k
      /\ ~ IsLocalPaperFill(ledger[t.d]) /\ t.lot \notin ledger[t.d].fills
      /\ IsLegalTransition(ledger[t.d].state, StateAfterFill(ledger[t.d], {t.lot}))
      /\ ledger' = [ledger EXCEPT ![t.d] = WithFill(ledger[t.d], {t.lot})]
      /\ \/ /\ ApplyFillAccepts(t.d, {t.lot}) /\ ApplyFill(t.d, {t.lot})
            /\ refused' = refused
         \/ /\ ~ ApplyFillAccepts(t.d, {t.lot}) /\ UNCHANGED <<book, position>>
            /\ refused' = refused \cup {<<t.d, t.lot>>}
  BY DEF ApplyTrade, AccountedFor, TradeSkipped, FillAccepted
<1>6. ledger[t.d] # NoOrder
  BY <1>3, <1>5 DEF NoOrder
<1>7. ledger[t.d] \in Order
  BY <1>3, <1>4, <1>6
<1>8. file[t.d] # NoOrder
  BY <1>1 DEF PlaneInv, CoreInv, ProgressInv, WriteAhead
<1>9. {t.lot} \subseteq Nat
  BY <1>2 DEF VenueLot
<1> DEFINE row == WithFill(ledger[t.d], {t.lot})
<1>10. RowWritten(ledger[t.d], row)
  BY <1>5, <1>7, <1>9, FilledRow
<1>11. /\ row.fills = ledger[t.d].fills \cup {t.lot}
       /\ row.state = StateAfterFill(ledger[t.d], {t.lot})
  BY DEF WithFill
<1>12. row \in Order
  BY <1>10 DEF RowWritten
<1> HIDE DEF row
<1>13. /\ ledger'[t.d] = row
       /\ \A e \in Decisions \ {t.d} : ledger'[e] = ledger[e]
       /\ ledger' \in [Decisions -> Order \cup {NoOrder}]
  BY <1>3, <1>4, <1>5, <1>12 DEF row
<1>14. Cardinality({t.lot}) = 1
  BY FS_Singleton
<1>15. ~ ApplyFillAccepts(t.d, {t.lot}) => t.d \in Sells
  BY DEF ApplyFillAccepts
<1> QED
  BY <1>2, <1>3, <1>5, <1>6, <1>8, <1>10, <1>11, <1>13, <1>14, <1>15

(* A pass gives a row a legal status of its venue order, unless it is a    *)
(* local paper fill.                                                       *)
LEMMA StatusEffect ==
    ASSUME PlaneInv, ApplyStatuses
    PROVE  /\ ledger' \in [Decisions -> Order \cup {NoOrder}]
           /\ \A d \in Decisions :
                 \/ ledger'[d] = ledger[d]
                 \/ /\ ledger[d] # NoOrder /\ ~ IsLocalPaperFill(ledger[d])
                    /\ RowWritten(ledger[d], ledger'[d])
                    /\ ledger'[d].fills = ledger[d].fills
                    /\ \E row \in rows : /\ row.order.d = d /\ row.order.k = ledger[d].vid
                                         /\ row.status = ledger'[d].state
<1> DEFINE chosen(d) == CHOOSE row \in KnownRows : row.order.d = d /\ Legal(row)
<1>1. ASSUME NEW d \in Decisions, \E row \in KnownRows : row.order.d = d /\ Legal(row)
      PROVE  /\ ledger[d] \in Order /\ ledger[d] # NoOrder
             /\ ~ IsLocalPaperFill(ledger[d])
             /\ [ledger[d] EXCEPT !.state = chosen(d).status] \in Order
             /\ RowWritten(ledger[d], [ledger[d] EXCEPT !.state = chosen(d).status])
             /\ [ledger[d] EXCEPT !.state = chosen(d).status].fills = ledger[d].fills
             /\ \E row \in rows :
                   /\ row.order.d = d /\ row.order.k = ledger[d].vid
                   /\ row.status = [ledger[d] EXCEPT !.state = chosen(d).status].state
  <2>1. chosen(d) \in KnownRows /\ chosen(d).order.d = d /\ Legal(chosen(d))
    BY <1>1
  <2> HIDE DEF chosen
  <2>2. PICK row \in rows : row = chosen(d)
    BY <2>1 DEF KnownRows
  <2>3. /\ row.order \in venue
        /\ row.status \in {"OPEN", "PARTIALLY_FILLED", "FILLED", "CANCELLED"}
    BY DEF PlaneInv, VenueInv
  <2>4. /\ ledger[d].vid = row.order.k /\ ~ IsLocalPaperFill(ledger[d])
        /\ IsLegalTransition(ledger[d].state, row.status)
    BY <2>1, <2>2 DEF KnownRows, AccountedFor, Legal
  <2>5. row.order.k \in Nat \ {0}
    BY <2>3 DEF PlaneInv, CoreInv, TypeOK, Request
  <2>6. ledger[d] # NoOrder
    BY <2>4, <2>5 DEF NoOrder
  <2>7. ledger[d] \in Order
    BY <2>6 DEF PlaneInv, CoreInv, TypeOK
  <2> DEFINE st == row.status
             new == [ledger[d] EXCEPT !.state = st]
  <2>8. st \in OrderState /\ st # "SUBMISSION_UNCERTAIN"
    BY <2>3 DEF OrderState
  <2> HIDE DEF st
  <2>9. new = [state |-> st, vid |-> ledger[d].vid, attempts |-> ledger[d].attempts,
               qty |-> ledger[d].qty, fills |-> ledger[d].fills]
    BY <2>7 DEF Order
  <2> HIDE DEF new
  <2>10. new \in Order /\ RowWritten(ledger[d], new) /\ new.fills = ledger[d].fills
    BY <2>4, <2>7, <2>8, <2>9 DEF Order, RowWritten, st
  <2>11. row.order.d = d /\ row.order.k = ledger[d].vid /\ row.status = new.state
    BY <2>1, <2>2, <2>4, <2>9 DEF st
  <2> QED
    BY <2>2, <2>4, <2>6, <2>7, <2>10, <2>11 DEF new, st
<1>2. ledger \in [Decisions -> Order \cup {NoOrder}]
  BY DEF PlaneInv, CoreInv, TypeOK
<1>3. ledger' = [d \in Decisions |->
          IF \E row \in KnownRows : row.order.d = d /\ Legal(row)
          THEN [ledger[d] EXCEPT !.state = chosen(d).status]
          ELSE ledger[d]]
  BY DEF ApplyStatuses
<1> HIDE DEF chosen
<1>4. ASSUME NEW d \in Decisions
      PROVE  /\ ledger'[d] \in Order \cup {NoOrder}
             /\ \/ ledger'[d] = ledger[d]
                \/ /\ ledger[d] # NoOrder /\ ~ IsLocalPaperFill(ledger[d])
                   /\ RowWritten(ledger[d], ledger'[d])
                   /\ ledger'[d].fills = ledger[d].fills
                   /\ \E row \in rows : /\ row.order.d = d /\ row.order.k = ledger[d].vid
                                        /\ row.status = ledger'[d].state
  <2>1. CASE \E row \in KnownRows : row.order.d = d /\ Legal(row)
    <3>1. ledger'[d] = [ledger[d] EXCEPT !.state = chosen(d).status]
      BY <1>3, <2>1
    <3> QED
      BY <1>1, <2>1, <3>1
  <2>2. CASE ~ \E row \in KnownRows : row.order.d = d /\ Legal(row)
    <3>1. ledger'[d] = ledger[d]
      BY <1>3, <2>2
    <3> QED
      BY <1>2, <3>1
  <2> QED
    BY <2>1, <2>2
<1>5. ledger' \in [Decisions -> Order \cup {NoOrder}]
  <2>1. ledger' = [d \in Decisions |-> ledger'[d]]
    BY <1>3
  <2> QED
    BY <1>4, <2>1
<1> QED
  BY <1>4, <1>5

(* apply_fill keeps the book's types: it never sells what is not held. *)
LEMMA BookStep ==
    ASSUME book \in Book, position \in Nat, NEW d \in Decisions, NEW lots,
           Cardinality(lots) \in Nat, ApplyFillAccepts(d, lots), ApplyFill(d, lots)
    PROVE  /\ book' \in Book /\ position' \in Nat
           /\ \A e \in Decisions \ {d} : book'[e] = book[e]
           /\ \A lot \in Lot : book'[d][lot] =
                 IF lot \in lots THEN book[d][lot] + 1 ELSE book[d][lot]
<1>1. book' = [book EXCEPT ![d] =
          [lot \in Lot |-> IF lot \in lots THEN book[d][lot] + 1 ELSE book[d][lot]]]
  BY DEF ApplyFill
<1>2. book[d] \in [Lot -> Nat]
  BY DEF Book
<1>3. [lot \in Lot |-> IF lot \in lots THEN book[d][lot] + 1 ELSE book[d][lot]]
         \in [Lot -> Nat]
  BY <1>2
<1>4. book' \in Book
  BY <1>1, <1>3 DEF Book
<1>5. position' \in Nat
  BY DEF ApplyFill, ApplyFillAccepts
<1>6. \A e \in Decisions \ {d} : book'[e] = book[e]
  BY <1>1 DEF Book
<1>7. book'[d] = [lot \in Lot |-> IF lot \in lots THEN book[d][lot] + 1 ELSE book[d][lot]]
  BY <1>1 DEF Book
<1> QED
  BY <1>4, <1>5, <1>6, <1>7

-----------------------------------------------------------------------------
(***************************************************************************)
(* The invariant of the plane, whatever fails and restarts.                *)
(***************************************************************************)

LEMMA CoreKept == CoreInv /\ [Next]_vars => CoreInv'
  BY TypeStep, CoreStep DEF CoreInv

(* A step that leaves the submitter, the ledger and its file alone. *)
LEMMA SubmissionUntouched ==
    ASSUME PlaneInv, UNCHANGED vars
    PROVE  CoreInv' /\ QuantityInv'
<1>1. CoreInv'
  BY CoreKept DEF PlaneInv
<1>2. QuantityInv'
  BY DEF PlaneInv, QuantityInv, vars
<1> QED
  BY <1>1, <1>2

(* The steps of the plane itself that leave those alone. *)
LEMMA QuietStep ==
    ASSUME PlaneInv,
           \/ \E d \in Decisions : CycleWithoutSubmission(d)
           \/ QuietCycle \/ FillWithheld \/ FillRefused \/ Checkpoint \/ CycleRaises
           \/ FetchOrders \/ FetchTrades \/ FetchFails
           \/ \E t \in pending : SkipTrade(t) \/ TradeRaises(t)
           \/ SaveBook \/ PassSaveRaises \/ PassCompletes \/ NavDrifts
    PROVE  PlaneInv'
<1> USE DEF PlaneTypes, Task, bookVars, cycleVars, passVars, marketVars, runVars, vars, PassAborts, Strands, PassEnds
<1>1. UNCHANGED vars
  BY DEF CycleWithoutSubmission, QuietCycle, FillWithheld, FillRefused, Checkpoint,
         CycleRaises, FetchOrders, FetchTrades, FetchFails, SkipTrade, TradeRaises,
         SaveBook, PassSaveRaises, PassCompletes, NavDrifts
<1>2. CoreInv' /\ QuantityInv'
  BY <1>1, SubmissionUntouched
<1>3. PlaneTypes'
  <2>1. task' \in Task /\ UNCHANGED <<book, position, restarts>>
    BY DEF PlaneInv, CycleWithoutSubmission, QuietCycle, FillWithheld, FillRefused,
           Checkpoint, CycleRaises, FetchOrders, FetchTrades, FetchFails, SkipTrade,
           TradeRaises, SaveBook, PassSaveRaises, PassCompletes, NavDrifts
  <2>2. subject' \in Decisions \cup {None}
    BY DEF PlaneInv, CycleWithoutSubmission, QuietCycle, FillWithheld, FillRefused,
           Checkpoint, CycleRaises, FetchOrders, FetchTrades, FetchFails, SkipTrade,
           TradeRaises, SaveBook, PassSaveRaises, PassCompletes, NavDrifts
  <2>3. bookFile' \in {bookFile, [book |-> book, position |-> position]}
    BY DEF CycleWithoutSubmission, QuietCycle, FillWithheld, FillRefused,
           Checkpoint, CycleRaises, FetchOrders, FetchTrades, FetchFails, SkipTrade,
           TradeRaises, SaveBook, PassSaveRaises, PassCompletes, NavDrifts
  <2>4. bookFile' \in [book : Book, position : Nat]
    BY <2>3 DEF PlaneInv
  <2> QED
    BY <2>1, <2>2, <2>4 DEF PlaneInv
<1>4. CycleInv'
  <2>1. CASE \E d \in Decisions : CycleWithoutSubmission(d)
    BY <2>1 DEF PlaneInv, CycleInv, CycleWithoutSubmission, NoOrder
  <2>2. CASE ~ \E d \in Decisions : CycleWithoutSubmission(d)
    BY <2>2
       DEF PlaneInv, CycleInv, QuietCycle, FillWithheld, FillRefused, Checkpoint,
           CycleRaises, FetchOrders, FetchTrades, FetchFails, SkipTrade, TradeRaises,
           SaveBook, PassSaveRaises, PassCompletes, NavDrifts
  <2> QED
    BY <2>1, <2>2
<1>5. VenueInv'
  <2>1. CASE FetchOrders
    <3>1. PICK status \in [venue -> OrderState] :
             /\ \A o \in venue : status[o] \in VenueStatus(o)
             /\ rows' = {[order |-> o, status |-> status[o]] : o \in venue}
      BY <2>1 DEF FetchOrders
    <3>2. ASSUME NEW row \in rows'
          PROVE  /\ row.order \in venue
                 /\ row.status \in {"OPEN", "PARTIALLY_FILLED", "FILLED", "CANCELLED"}
      <4>1. PICK o \in venue : row = [order |-> o, status |-> status[o]]
        BY <3>1
      <4>2. status[o] \in {"OPEN", "PARTIALLY_FILLED", "FILLED", "CANCELLED"}
        BY <3>1 DEF VenueStatus
      <4> QED
        BY <4>1, <4>2
    <3>3. UNCHANGED <<trades, pending, venue>>
      BY <2>1 DEF FetchOrders
    <3> QED
      BY <3>2, <3>3 DEF PlaneInv, VenueInv
  <2>2. CASE ~ FetchOrders
    BY <2>2
       DEF PlaneInv, VenueInv, CycleWithoutSubmission, QuietCycle, FillWithheld,
           FillRefused, Checkpoint, CycleRaises, FetchTrades, FetchFails, SkipTrade,
           TradeRaises, SaveBook, PassSaveRaises, PassCompletes, NavDrifts
  <2> QED
    BY <2>1, <2>2
<1> QED
  BY <1>2, <1>3, <1>4, <1>5 DEF PlaneInv

(* The venue fills an order up to its quantity, or closes it. *)
LEMMA MarketStep ==
    ASSUME PlaneInv, NEW o \in venue, VenueFill(o) \/ VenueClose(o)
    PROVE  PlaneInv'
<1>1. UNCHANGED <<vars, cycleVars, bookVars, blocked, passVars, runVars>>
  BY DEF VenueFill, VenueClose
<1>2. CoreInv' /\ QuantityInv'
  BY <1>1, SubmissionUntouched
<1>3. PlaneTypes' /\ CycleInv'
  BY <1>1 DEF PlaneInv, PlaneTypes, CycleInv, vars, cycleVars, bookVars, runVars
<1>4. VenueInv'
  <2>1. CASE VenueFill(o)
    <3> DEFINE n == Cardinality(TradesOf(o))
               new == [d |-> o.d, k |-> o.k, lot |-> n + 1]
    <3>1. trades' = trades \cup {new} /\ n < o.qty
      BY <2>1 DEF VenueFill
    <3>2. n \in Nat
      <4>1. IsFiniteSet(trades) /\ TradesOf(o) \subseteq trades
        BY DEF PlaneInv, VenueInv, TradesOf
      <4>2. IsFiniteSet(TradesOf(o))
        BY <4>1, FS_Subset
      <4> QED
        BY <4>2, FS_CardinalityType
    <3>3. o \in Request /\ o.qty \in Nat /\ o.qty <= MaxQuantity
      BY DEF PlaneInv, CoreInv, TypeOK, Request, QuantityInv
    <3> HIDE DEF n
    <3>4. new.lot \in VenueLot /\ new.d = o.d /\ new.k = o.k
      BY <3>1, <3>2, <3>3, SubmissionAssumption DEF VenueLot
    <3> HIDE DEF new
    <3>5. IsFiniteSet(trades')
      BY <3>1, FS_AddElement DEF PlaneInv, VenueInv
    <3> QED
      BY <1>1, <3>1, <3>4, <3>5 DEF PlaneInv, VenueInv, vars, passVars
  <2>2. CASE VenueClose(o)
    BY <1>1, <2>2 DEF VenueClose, PlaneInv, VenueInv, vars, passVars
  <2> QED
    BY <2>1, <2>2
<1> QED
  BY <1>2, <1>3, <1>4 DEF PlaneInv

(* The submitter's steps, a crash and the network's. *)
LEMMA SubmissionStep ==
    ASSUME PlaneInv,
           \/ \E d \in Decisions : CycleSubmits(d) \/ CycleRefused(d)
           \/ SubmitterStep
           \/ NetworkStep /\ UNCHANGED planeVars
           \/ Restart
    PROVE  PlaneInv'
<1> USE DEF PlaneTypes, Task, bookVars, cycleVars, passVars, marketVars, runVars
<1>1. ASSUME NEW d \in Decisions, CycleSubmits(d) PROVE PlaneInv'
  <2>1. /\ SubmitFresh(d, position) /\ task' = "submitting" /\ subject' = d
        /\ UNCHANGED <<bookVars, passVars, marketVars, runVars>>
    BY <1>1 DEF CycleSubmits
  <2>2. PICK held \in Holdings : SubmitFresh(d, held)
    BY <2>1, FreshSubmission DEF PlaneInv
  <2>3. CoreInv'
    BY <2>2, CoreKept DEF PlaneInv, Next, SubmitStep
  <2>4. PICK quantity \in Quantities :
           /\ ReduceOnlyCap(d, position, 0) # 0
           /\ ledger' = [ledger EXCEPT ![d] = PlannedOrder(
                 PlannedQuantity(quantity, ReduceOnlyCap(d, position, 0)))]
    BY <2>1 DEF SubmitFresh
  <2> DEFINE q == PlannedQuantity(quantity, ReduceOnlyCap(d, position, 0))
  <2>5. q \in Nat \ {0} /\ q <= MaxQuantity
    BY <2>4, PlanOfCycle DEF PlaneInv
  <2> HIDE DEF q
  <2>6. /\ ledger'[d] = PlannedOrder(q)
        /\ \A e \in Decisions \ {d} : ledger'[e] = ledger[e]
    BY <2>4 DEF PlaneInv, CoreInv, TypeOK, q
  <2>7. pc' = "savePlan" /\ cur' = d /\ UNCHANGED <<file, wire, venue>>
    BY <2>1 DEF SubmitFresh
  <2>8. QuantityInv'
    BY <2>5, <2>6, <2>7 DEF PlaneInv, QuantityInv, PlannedOrder
  <2>9. CycleInv'
    BY <2>1, <2>6, <2>7 DEF CycleInv, PlannedOrder
  <2>10. PlaneTypes' /\ VenueInv'
    BY <2>1, <2>7 DEF PlaneInv, VenueInv
  <2> QED
    BY <2>3, <2>8, <2>9, <2>10 DEF PlaneInv
<1>2. ASSUME NEW d \in Decisions, CycleRefused(d) PROVE PlaneInv'
  <2>1. /\ SubmitFreshRefused(d) /\ task' = "fill" /\ subject' = d
        /\ UNCHANGED <<bookVars, passVars, marketVars, runVars>>
    BY <1>2 DEF CycleRefused
  <2>2. CoreInv'
    BY <2>1, CoreKept DEF PlaneInv, Next, SubmitStep
  <2>3. pc' = "idle" /\ UNCHANGED <<ledger, file, wire, venue>>
    BY <2>1 DEF SubmitFreshRefused, Return
  <2>4. ledger[d].fills = {}
    BY <2>1, PresentRow
       DEF SubmitFreshRefused, PlaneInv, CoreInv, TypeOK, NoOrder
  <2>5. PlaneTypes' /\ QuantityInv' /\ VenueInv' /\ CycleInv'
    BY <2>1, <2>3, <2>4 DEF PlaneInv, QuantityInv, VenueInv, CycleInv
  <2> QED
    BY <2>2, <2>5 DEF PlaneInv
<1>3. CASE SubmitterStep
  <2>1. /\ Next
        /\ \A e \in Decisions :
              ledger'[e].fills = ledger[e].fills /\ ledger'[e].qty = ledger[e].qty
        /\ file' \in {file, ledger}
        /\ venue' = venue
        /\ cur \in Decisions
        /\ \A r \in wire' : r \in wire \/ r.qty = ledger[cur].qty
        /\ pc' = "idle" \/ cur' = cur
    BY <1>3, SubmitterEffect DEF PlaneInv
  <2>2. CoreInv'
    BY <2>1, CoreKept DEF PlaneInv
  <2>3. /\ task = "submitting"
        /\ task' = IF pc' # "idle" THEN "submitting"
                   ELSE IF result' = "raised" THEN "idle" ELSE "fill"
        /\ subject' = IF task' = "idle" THEN None ELSE subject
        /\ UNCHANGED <<bookVars, passVars, marketVars, runVars>>
    BY <1>3 DEF SubmitterStep
  <2>4. QuantityInv'
    BY <2>1 DEF PlaneInv, QuantityInv
  <2>5. PlaneTypes' /\ VenueInv'
    BY <2>1, <2>3 DEF PlaneInv, VenueInv
  <2>6. CycleInv'
    BY <2>1, <2>3 DEF PlaneInv, CycleInv
  <2> QED
    BY <2>2, <2>4, <2>5, <2>6 DEF PlaneInv
<1>4. CASE NetworkStep /\ UNCHANGED planeVars
  <2>1. CoreInv'
    BY <1>4, CoreKept DEF PlaneInv, Next
  <2>2. /\ UNCHANGED <<ledger, file, pc, cur>>
        /\ wire' \subseteq wire /\ venue \subseteq venue' /\ venue' \subseteq venue \cup wire
    BY <1>4 DEF NetworkStep, VenueAccept, VenueRefuse, RequestLost
  <2>3. PlaneTypes' /\ QuantityInv' /\ CycleInv'
    BY <1>4, <2>2 DEF PlaneInv, QuantityInv, CycleInv, planeVars
  <2>4. VenueInv'
    BY <1>4, <2>2 DEF PlaneInv, VenueInv, planeVars
  <2> QED
    BY <2>1, <2>3, <2>4 DEF PlaneInv
<1>5. CASE Restart
  <2>1. CoreInv'
    BY <1>5, CoreKept DEF PlaneInv, Next, Restart
  <2>2. /\ ledger' = file /\ pc' = "idle" /\ UNCHANGED <<file, wire, venue>>
    BY <1>5 DEF Restart, Crash
  <2>3. task' \in {"boot", "idle"}
    BY <1>5 DEF Restart, Boot
  <2>4. PlaneTypes'
    BY <1>5, <2>3 DEF PlaneInv, Restart
  <2>5. QuantityInv' /\ VenueInv' /\ CycleInv'
    BY <1>5, <2>2, <2>3 DEF PlaneInv, QuantityInv, VenueInv, CycleInv, Restart
  <2> QED
    BY <2>1, <2>4, <2>5 DEF PlaneInv
<1> QED
  BY <1>1, <1>2, <1>3, <1>4, <1>5

(* The steps that write fills and statuses, or save them. *)
LEMMA LedgerStep ==
    ASSUME PlaneInv,
           \/ FillApplied \/ SaveFill
           \/ \E t \in pending : ApplyTrade(t)
           \/ ApplyStatuses \/ SaveLedger
    PROVE  PlaneInv'
<1> USE DEF PlaneTypes, Task, bookVars, cycleVars, passVars, marketVars, runVars,
            submitterVars
<1>1. CASE FillApplied
  <2>1. /\ task = "fill" /\ task' = "saveFill"
        /\ UNCHANGED <<file, submitterVars, wire, venue, subject, bookFile, passVars,
                       marketVars, runVars>>
    BY <1>1 DEF FillApplied
  <2>2. /\ subject \in Decisions
        /\ ledger' \in [Decisions -> Order \cup {NoOrder}]
        /\ \A e \in Decisions \ {subject} : ledger'[e] = ledger[e]
        /\ \/ ledger'[subject] = ledger[subject]
           \/ RowWritten(ledger[subject], ledger'[subject])
        /\ ledger'[subject].qty <= MaxQuantity
    BY <1>1, FillEffect
  <2>3. pc = "idle"
    BY <2>1 DEF PlaneInv, CycleInv
  <2>4. CoreInv'
    BY <2>1, <2>2, <2>3, LedgerWrite DEF PlaneInv
  <2>5. book' \in Book /\ position' \in Nat
    <3>1. CASE UNCHANGED <<book, position>>
      BY <3>1 DEF PlaneInv
    <3>2. CASE ~ UNCHANGED <<book, position>>
      <4>1. PICK lots : /\ Cardinality(lots) \in Nat
                        /\ ApplyFillAccepts(subject, lots) /\ ApplyFill(subject, lots)
        BY <1>1, <3>2, FillEffect
      <4> QED
        BY <2>2, <4>1, BookStep DEF PlaneInv
    <3> QED
      BY <3>1, <3>2
  <2>6. QuantityInv'
    BY <2>1, <2>2 DEF PlaneInv, QuantityInv
  <2>7. PlaneTypes' /\ VenueInv' /\ CycleInv'
    BY <2>1, <2>3, <2>5 DEF PlaneInv, VenueInv, CycleInv
  <2> QED
    BY <2>4, <2>6, <2>7 DEF PlaneInv
<1>2. CASE SaveFill \/ SaveLedger
  <2>1. /\ file' = ledger /\ task \notin {"submitting"}
        /\ task' \in {"checkpoint", "saveBook", "nav"}
        /\ UNCHANGED <<ledger, submitterVars, wire, venue, subject, bookVars, passVars,
                       marketVars, runVars>>
    BY <1>2 DEF SaveFill, SaveLedger
  <2>2. pc = "idle"
    BY <2>1 DEF PlaneInv, CycleInv
  <2>3. CoreInv'
    BY <2>1, <2>2, LedgerSaved DEF PlaneInv
  <2>4. PlaneTypes' /\ QuantityInv' /\ VenueInv' /\ CycleInv'
    BY <2>1, <2>2 DEF PlaneInv, QuantityInv, VenueInv, CycleInv
  <2> QED
    BY <2>3, <2>4 DEF PlaneInv
<1>3. ASSUME NEW t \in pending, ApplyTrade(t) PROVE PlaneInv'
  <2>1. /\ task = "apply" /\ task' \in {"apply", "idle"}
        /\ pending' \subseteq pending /\ rows' \subseteq rows
        /\ UNCHANGED <<file, submitterVars, wire, venue, subject, bookFile,
                       marketVars, restarts, paper>>
    BY <1>3 DEF ApplyTrade, PassAborts, Strands, PassEnds
  <2>2. /\ t.d \in Decisions /\ ledger[t.d] # NoOrder
        /\ ledger' \in [Decisions -> Order \cup {NoOrder}]
        /\ \A e \in Decisions \ {t.d} : ledger'[e] = ledger[e]
        /\ RowWritten(ledger[t.d], ledger'[t.d])
        /\ Cardinality({t.lot}) = 1
        /\ \/ ApplyFillAccepts(t.d, {t.lot}) /\ ApplyFill(t.d, {t.lot})
           \/ UNCHANGED <<book, position>>
    BY <1>3, TradeEffect
  <2>3. pc = "idle"
    BY <2>1 DEF PlaneInv, CycleInv
  <2>4. CoreInv'
    BY <2>1, <2>2, <2>3, LedgerWrite DEF PlaneInv
  <2>5. book' \in Book /\ position' \in Nat
    BY <2>2, BookStep DEF PlaneInv
  <2>6. QuantityInv'
    BY <2>1, <2>2 DEF PlaneInv, QuantityInv, RowWritten
  <2>7. PlaneTypes' /\ VenueInv' /\ CycleInv'
    BY <2>1, <2>3, <2>5 DEF PlaneInv, VenueInv, CycleInv
  <2> QED
    BY <2>4, <2>6, <2>7 DEF PlaneInv
<1>4. CASE ApplyStatuses
  <2>1. /\ task = "apply" /\ task' = "saveLedger" /\ rows' = {}
        /\ UNCHANGED <<file, submitterVars, wire, venue, subject, bookVars, pending,
                       marketVars, runVars>>
    BY <1>4 DEF ApplyStatuses
  <2>2. /\ ledger' \in [Decisions -> Order \cup {NoOrder}]
        /\ \A d \in Decisions :
              \/ ledger'[d] = ledger[d]
              \/ ledger[d] # NoOrder /\ RowWritten(ledger[d], ledger'[d])
    BY <1>4, StatusEffect
  <2>3. pc = "idle"
    BY <2>1 DEF PlaneInv, CycleInv
  <2>4. CoreInv'
    BY <2>1, <2>2, <2>3, LedgerWrite DEF PlaneInv
  <2>5. QuantityInv'
    BY <2>1, <2>2 DEF PlaneInv, QuantityInv, RowWritten
  <2>6. PlaneTypes' /\ VenueInv' /\ CycleInv'
    BY <2>1, <2>3 DEF PlaneInv, VenueInv, CycleInv
  <2> QED
    BY <2>4, <2>5, <2>6 DEF PlaneInv
<1> QED
  BY <1>1, <1>2, <1>3, <1>4

LEMMA PlaneStep == PlaneInv /\ [PlaneNext]_allVars => PlaneInv'
<1> SUFFICES ASSUME PlaneInv, [PlaneNext]_allVars PROVE PlaneInv'
  OBVIOUS
<1>1. CASE UNCHANGED allVars
  <2>1. CoreInv' /\ QuantityInv'
    BY <1>1, SubmissionUntouched DEF allVars
  <2>2. PlaneTypes' /\ VenueInv' /\ CycleInv'
    BY <1>1 DEF allVars, planeVars, vars, PlaneInv, PlaneTypes, VenueInv, CycleInv
  <2> QED
    BY <2>1, <2>2 DEF PlaneInv
<1>2. CASE CycleStep \/ PassStep \/ Restart
  BY <1>2, QuietStep, SubmissionStep, LedgerStep DEF CycleStep, PassStep
<1>3. CASE VenueStep
  BY <1>3, SubmissionStep, MarketStep DEF VenueStep
<1> QED
  BY <1>1, <1>2, <1>3 DEF PlaneNext

(***************************************************************************)
(* Type correctness of the plane, and what its other proofs rest on: the   *)
(* submitter's invariant survives the fills and statuses written between   *)
(* its calls, and trades are those of orders that are on disk.             *)
(***************************************************************************)
THEOREM PlaneInvariance == PlaneSpec => []PlaneInv
<1>1. PlaneInit => PlaneInv
  <2> SUFFICES ASSUME PlaneInit PROVE PlaneInv
    OBVIOUS
  <2>1. CoreInv
    BY SubmissionAssumption
       DEF PlaneInit, Init, CoreInv, ProgressInv, TypeOK, LedgerAhead, WriteAhead,
           AttemptsBounded, ExitsShrink, CallState, RowProgress, NoOrder, Label
  <2>2. PlaneTypes
    BY DEF PlaneInit, PlaneTypes, Task, Boot, Book, EmptyBook
  <2>3. QuantityInv /\ VenueInv /\ CycleInv
    BY SubmissionAssumption, FS_EmptySet
       DEF PlaneInit, Init, QuantityInv, VenueInv, CycleInv, NoOrder, Boot
  <2> QED
    BY <2>1, <2>2, <2>3 DEF PlaneInv
<1> QED
  BY <1>1, PlaneStep, PTL DEF PlaneSpec

-----------------------------------------------------------------------------
(***************************************************************************)
(* Until the first restart: the book follows the ledger.                   *)
(***************************************************************************)

(* The steps that change neither the ledger, its file nor the book. *)
LEMMA QuietEffect ==
    ASSUME \/ \E d \in Decisions : CycleWithoutSubmission(d) \/ CycleRefused(d)
           \/ QuietCycle \/ FillWithheld \/ FillRefused \/ CycleRaises
           \/ FetchOrders \/ FetchTrades \/ FetchFails
           \/ \E t \in pending : SkipTrade(t) \/ TradeRaises(t)
           \/ PassSaveRaises \/ PassCompletes \/ NavDrifts
           \/ VenueStep
    PROVE  UNCHANGED <<ledger, file, book, bookFile>>
  BY DEF CycleWithoutSubmission, CycleRefused, SubmitFreshRefused, QuietCycle,
         FillWithheld, FillRefused, CycleRaises, FetchOrders, FetchTrades, FetchFails,
         SkipTrade, TradeRaises, PassSaveRaises, PassCompletes, NavDrifts, VenueStep,
         NetworkStep, VenueAccept, VenueRefuse, RequestLost, VenueFill, VenueClose,
         planeVars, bookVars, vars

(* What a step makes of the history: only a fill of a pass is refused, and *)
(* a process that has not been restarted was not restarted before.         *)
LEMMA HistoryStep ==
    ASSUME PlaneInv, [PlaneNext]_allVars
    PROVE  /\ stranded \subseteq stranded'
           /\ refused' = refused \/ \E t \in pending : ApplyTrade(t)
           /\ restarts' = 0 => restarts = 0 /\ ~ Restart
<1>1. ASSUME ~ Restart PROVE restarts' = restarts
  BY <1>1
     DEF PlaneNext, CycleStep, PassStep, VenueStep, CycleSubmits, CycleRefused,
         CycleWithoutSubmission, QuietCycle, SubmitterStep, FillWithheld, FillRefused,
         FillApplied, SaveFill, Checkpoint, CycleRaises, FetchOrders, FetchTrades,
         FetchFails, SkipTrade, ApplyTrade, TradeRaises, ApplyStatuses, SaveLedger,
         SaveBook, PassSaveRaises, PassCompletes, NavDrifts, VenueFill, VenueClose,
         runVars, allVars, planeVars
<1>2. Restart => restarts' # 0
  BY DEF Restart, PlaneInv, PlaneTypes
<1>3. refused' = refused \/ \E t \in pending : ApplyTrade(t)
  BY DEF PlaneNext, CycleStep, PassStep, VenueStep, CycleSubmits, CycleRefused,
         CycleWithoutSubmission, QuietCycle, SubmitterStep, FillWithheld, FillRefused,
         FillApplied, SaveFill, Checkpoint, CycleRaises, FetchOrders, FetchTrades,
         FetchFails, SkipTrade, TradeRaises, ApplyStatuses, SaveLedger,
         SaveBook, PassSaveRaises, PassCompletes, NavDrifts, Restart, VenueFill,
         VenueClose, runVars, allVars, planeVars
<1>4. stranded \subseteq stranded'
  <2>1. stranded' = stranded \/ Strands
    BY DEF PlaneNext, CycleStep, PassStep, VenueStep, CycleSubmits, CycleRefused,
           CycleWithoutSubmission, QuietCycle, SubmitterStep, FillWithheld, FillRefused,
           FillApplied, SaveFill, Checkpoint, CycleRaises, FetchOrders, FetchTrades,
           FetchFails, SkipTrade, ApplyTrade, TradeRaises, ApplyStatuses, SaveLedger,
           SaveBook, PassSaveRaises, PassCompletes, NavDrifts, Restart, VenueFill,
           VenueClose, PassAborts, runVars, allVars, planeVars
  <2> QED
    BY <2>1 DEF Strands
<1> QED
  BY <1>1, <1>2, <1>3, <1>4

LEMMA ExactStep ==
    ASSUME PlaneInv, ExactInv, [PlaneNext]_allVars
    PROVE  ExactInv'
<1> SUFFICES ASSUME restarts' = 0
             PROVE  /\ \A d \in Decisions, lot \in Lot :
                          book'[d][lot] =
                             IF lot \in ledger'[d].fills /\ <<d, lot>> \notin refused'
                             THEN 1 ELSE 0
                    /\ RefusedSells'
  BY DEF ExactInv, AppliedUnlessRefused
<1>1. /\ restarts = 0 /\ ~ Restart
      /\ refused' = refused \/ \E t \in pending : ApplyTrade(t)
  BY HistoryStep
<1>2. \A d \in Decisions, lot \in Lot :
         book[d][lot] =
            IF lot \in ledger[d].fills /\ <<d, lot>> \notin refused THEN 1 ELSE 0
  BY <1>1 DEF ExactInv, AppliedUnlessRefused
<1>3. RefusedSells
  BY <1>1 DEF ExactInv
<1> DEFINE Exact == /\ \A d \in Decisions, lot \in Lot :
                          book'[d][lot] =
                             IF lot \in ledger'[d].fills /\ <<d, lot>> \notin refused'
                             THEN 1 ELSE 0
                    /\ RefusedSells'
<1>4. ASSUME book' = book, \A d \in Decisions : ledger'[d].fills = ledger[d].fills,
             refused' = refused
      PROVE  Exact
  BY <1>2, <1>3, <1>4 DEF RefusedSells
<1>5. CASE UNCHANGED <<ledger, book, refused>>
  BY <1>4, <1>5
<1>6. ASSUME NEW d \in Decisions, NEW lots, Cardinality(lots) \in Nat,
             ApplyFillAccepts(d, lots), ApplyFill(d, lots), refused' = refused,
             \A lot \in lots : lot \notin ledger[d].fills,
             ledger'[d].fills = ledger[d].fills \cup lots,
             \A e \in Decisions \ {d} : ledger'[e] = ledger[e]
      PROVE  Exact
  <2>1. /\ \A e \in Decisions \ {d} : book'[e] = book[e]
        /\ \A lot \in Lot : book'[d][lot] =
              IF lot \in lots THEN book[d][lot] + 1 ELSE book[d][lot]
    BY <1>6, BookStep DEF PlaneInv, PlaneTypes
  <2>2. ASSUME NEW e \in Decisions, NEW lot \in Lot
        PROVE  /\ book'[e][lot] =
                     IF lot \in ledger'[e].fills /\ <<e, lot>> \notin refused'
                     THEN 1 ELSE 0
               /\ <<e, lot>> \in refused' => e \in Sells /\ lot \in ledger'[e].fills
    <3>1. /\ book[e][lot] =
                IF lot \in ledger[e].fills /\ <<e, lot>> \notin refused THEN 1 ELSE 0
          /\ <<e, lot>> \in refused => e \in Sells /\ lot \in ledger[e].fills
      BY <1>2, <1>3 DEF RefusedSells
    <3>2. CASE e = d
      <4>1. book'[d][lot] = IF lot \in lots THEN book[d][lot] + 1 ELSE book[d][lot]
        BY <2>1
      <4>2. lot \in lots => book[d][lot] = 0 /\ <<d, lot>> \notin refused
        BY <1>6, <3>1, <3>2
      <4> QED
        BY <1>6, <3>1, <3>2, <4>1, <4>2
    <3>3. CASE e # d
      BY <1>6, <2>1, <3>1, <3>3
    <3> QED
      BY <3>2, <3>3
  <2> QED
    BY <2>2 DEF RefusedSells
<1>7. ASSUME NEW t \in pending, ApplyTrade(t) PROVE Exact
  <2>1. /\ t.d \in Decisions /\ t.lot \notin ledger[t.d].fills
        /\ \A e \in Decisions \ {t.d} : ledger'[e] = ledger[e]
        /\ ledger'[t.d].fills = ledger[t.d].fills \cup {t.lot}
        /\ Cardinality({t.lot}) = 1
        /\ \/ /\ ApplyFillAccepts(t.d, {t.lot}) /\ ApplyFill(t.d, {t.lot})
              /\ refused' = refused
           \/ /\ t.d \in Sells /\ UNCHANGED <<book, position>>
              /\ refused' = refused \cup {<<t.d, t.lot>>}
    BY <1>7, TradeEffect
  <2>2. CASE ApplyFillAccepts(t.d, {t.lot}) /\ ApplyFill(t.d, {t.lot})
             /\ refused' = refused
    BY <1>6, <2>1, <2>2
  <2>3. CASE /\ t.d \in Sells /\ UNCHANGED <<book, position>>
             /\ refused' = refused \cup {<<t.d, t.lot>>}
    <3>1. ASSUME NEW e \in Decisions, NEW lot \in Lot
          PROVE  /\ book'[e][lot] =
                       IF lot \in ledger'[e].fills /\ <<e, lot>> \notin refused'
                       THEN 1 ELSE 0
                 /\ <<e, lot>> \in refused' => e \in Sells /\ lot \in ledger'[e].fills
      <4>1. /\ book[e][lot] =
                  IF lot \in ledger[e].fills /\ <<e, lot>> \notin refused THEN 1 ELSE 0
            /\ <<e, lot>> \in refused => e \in Sells /\ lot \in ledger[e].fills
        BY <1>2, <1>3 DEF RefusedSells
      <4>2. <<e, lot>> \in refused' <=>
               <<e, lot>> \in refused \/ (e = t.d /\ lot = t.lot)
        BY <2>3
      <4>3. lot \in ledger'[e].fills <=>
               lot \in ledger[e].fills \/ (e = t.d /\ lot = t.lot)
        BY <2>1
      <4> QED
        BY <2>1, <2>3, <4>1, <4>2, <4>3
    <3> QED
      BY <3>1 DEF RefusedSells
  <2> QED
    BY <2>1, <2>2, <2>3
<1>8. CASE ~ \E t \in pending : ApplyTrade(t)
  <2>1. refused' = refused
    BY <1>1, <1>8
  <2>2. ASSUME NEW d \in Decisions, CycleSubmits(d) PROVE Exact
    <3>1. /\ SubmitFresh(d, position) /\ ledger[d].state = "NONE" /\ book' = book
      BY <2>2 DEF CycleSubmits, SubmitFresh, bookVars
    <3>2. PICK q : ledger' = [ledger EXCEPT ![d] = PlannedOrder(q)]
      BY <3>1 DEF SubmitFresh
    <3>3. ledger[d].fills = {}
      BY <3>1, PresentRow DEF PlaneInv, CoreInv, TypeOK, NoOrder
    <3>4. \A e \in Decisions : ledger'[e].fills = ledger[e].fills
      BY <3>2, <3>3 DEF PlaneInv, CoreInv, TypeOK, PlannedOrder
    <3> QED
      BY <1>4, <2>1, <3>1, <3>4
  <2>3. CASE SubmitterStep
    <3>1. book' = book
      BY <2>3 DEF SubmitterStep, bookVars
    <3>2. \A e \in Decisions : ledger'[e].fills = ledger[e].fills
      BY <2>3, SubmitterEffect DEF PlaneInv
    <3> QED
      BY <1>4, <2>1, <3>1, <3>2
  <2>4. CASE FillApplied
    <3>1. /\ subject \in Decisions /\ ledger[subject].fills = {}
          /\ \A e \in Decisions \ {subject} : ledger'[e] = ledger[e]
      BY <2>4, FillEffect
    <3>2. CASE UNCHANGED <<book, position>> /\ ledger'[subject].fills = {}
      BY <1>4, <2>1, <3>1, <3>2
    <3>3. CASE ~ (UNCHANGED <<book, position>> /\ ledger'[subject].fills = {})
      <4>1. PICK lots \in SUBSET (Lot \ VenueLot) :
               /\ Cardinality(lots) \in Nat
               /\ ApplyFillAccepts(subject, lots) /\ ApplyFill(subject, lots)
               /\ ledger'[subject].fills = lots
        BY <2>4, <3>3, FillEffect
      <4> QED
        BY <1>6, <2>1, <3>1, <4>1
    <3> QED
      BY <3>2, <3>3
  <2>5. CASE ApplyStatuses
    <3>1. book' = book
      BY <2>5 DEF ApplyStatuses, bookVars
    <3>2. \A d \in Decisions : ledger'[d].fills = ledger[d].fills
      BY <2>5, StatusEffect
    <3> QED
      BY <1>4, <2>1, <3>1, <3>2
  <2>6. CASE SaveFill \/ SaveLedger \/ Checkpoint \/ SaveBook \/ UNCHANGED allVars
    <3>1. UNCHANGED <<ledger, book>>
      BY <2>6 DEF SaveFill, SaveLedger, Checkpoint, SaveBook, bookVars, vars, allVars,
                  planeVars
    <3> QED
      BY <1>5, <2>1, <3>1
  <2> QED
    BY <1>1, <1>5, <1>8, <2>1, <2>2, <2>3, <2>4, <2>5, <2>6, QuietEffect
       DEF PlaneNext, CycleStep, PassStep
<1> QED
  BY <1>7, <1>8

(***************************************************************************)
(* Until its first restart a service has in its book exactly the lots its  *)
(* ledger recorded, each once, whatever passes abort and saves fail; the   *)
(* lots it lacks are those apply_fill refused after record_fill            *)
(* (processed_fill_ids, PaperFillSimulator.apply).                         *)
(***************************************************************************)
THEOREM AppliedOnceUnlessRefused == PlaneSpec => []AppliedUnlessRefused
<1>1. PlaneInit => ExactInv
  BY DEF PlaneInit, Init, ExactInv, AppliedUnlessRefused, RefusedSells, EmptyBook, NoOrder
<1>2. PlaneInv /\ ExactInv /\ [PlaneNext]_allVars => ExactInv'
  BY ExactStep
<1>3. ExactInv => AppliedUnlessRefused
  BY DEF ExactInv
<1> QED
  BY <1>1, <1>2, <1>3, PlaneInvariance, PTL DEF PlaneSpec

(***************************************************************************)
(* The documented claim, AppliedExactlyOnce, therefore holds until the     *)
(* first restart for a service whose decisions all buy: only a sell is     *)
(* ever refused.                                                           *)
(***************************************************************************)
THEOREM BuysAppliedExactlyOnce ==
    ASSUME Sells = {}
    PROVE  PlaneSpec => [](restarts = 0 => AppliedExactlyOnce)
<1>1. PlaneInit => ExactInv
  BY DEF PlaneInit, Init, ExactInv, AppliedUnlessRefused, RefusedSells, EmptyBook, NoOrder
<1>2. PlaneInv /\ ExactInv /\ [PlaneNext]_allVars => ExactInv'
  BY ExactStep
<1>3. ExactInv => (restarts = 0 => AppliedExactlyOnce)
  <2> SUFFICES ASSUME ExactInv, restarts = 0, NEW d \in Decisions, NEW lot \in Lot
               PROVE  book[d][lot] = IF lot \in ledger[d].fills THEN 1 ELSE 0
    BY DEF AppliedExactlyOnce
  <2>1. <<d, lot>> \notin refused
    BY DEF ExactInv, RefusedSells
  <2> QED
    BY <2>1 DEF ExactInv, AppliedUnlessRefused
<1> QED
  BY <1>1, <1>2, <1>3, PlaneInvariance, PTL DEF PlaneSpec

-----------------------------------------------------------------------------
(***************************************************************************)
(* Across restarts: an entry is booked from one source.                    *)
(***************************************************************************)

(* A step that leaves the book and its checkpoint alone, never touches a   *)
(* local paper fill nor drops a row, and starts cycles on new decisions.   *)
LEMMA SourceKept ==
    ASSUME PlaneInv, SourceInv, UNCHANGED <<book, bookFile>>,
           \A d \in Decisions :
              /\ ledger[d] # NoOrder => ledger'[d] # NoOrder
              /\ IsLocalPaperFill(ledger[d]) => ledger'[d] = ledger[d],
           file' \in {file, ledger},
           task = "saveFill" =>
              file' = ledger \/ (task' = "saveFill" /\ subject' = subject),
           task' \in {"submitting", "fill"} =>
              \/ task \in {"submitting", "fill"} /\ subject' = subject
              \/ ledger[subject'] = NoOrder
    PROVE  SourceInv'
<1>1. ASSUME NEW d \in Decisions
      PROVE  /\ file[d] # NoOrder => ledger[d] # NoOrder /\ file'[d] # NoOrder
             /\ ledger[d] # NoOrder => ledger'[d] # NoOrder
             /\ Unsaved(d) => Unsaved(d)' \/ file'[d] = ledger[d]
             /\ file'[d] = file[d] \/ file'[d] = ledger[d]
  <2>1. file[d] # NoOrder => ledger[d] # NoOrder
    BY DEF PlaneInv, CoreInv, ProgressInv, LedgerAhead, RowProgress
  <2> QED
    BY <2>1 DEF Unsaved
<1>2. BookedHasRow'
  <2>1. ASSUME NEW d \in Decisions,
               PaperBooked(book, d) \/ VenueBooked(book, d)
        PROVE  /\ ledger'[d] # NoOrder /\ (file'[d] # NoOrder \/ Unsaved(d)')
               /\ ~ (task' \in {"submitting", "fill"} /\ subject' = d)
    BY <1>1, <2>1 DEF SourceInv, BookedHasRow
  <2>2. ASSUME NEW d \in Decisions,
               PaperBooked(bookFile.book, d) \/ VenueBooked(bookFile.book, d)
        PROVE  file'[d] # NoOrder
    BY <1>1, <2>2 DEF SourceInv, BookedHasRow
  <2> QED
    BY <2>1, <2>2 DEF BookedHasRow
<1>3. PaperFillMarked'
  <2>1. ASSUME NEW d \in Decisions \ ReduceOnly
        PROVE  /\ IsLocalPaperFill(file'[d]) => IsLocalPaperFill(ledger[d])
               /\ IsLocalPaperFill(file[d]) => IsLocalPaperFill(file'[d])
               /\ IsLocalPaperFill(ledger[d]) => IsLocalPaperFill(ledger'[d])
    BY <1>1 DEF SourceInv, PaperFillMarked
  <2>2. ASSUME NEW d \in Decisions \ ReduceOnly, PaperBooked(book, d)
        PROVE  /\ IsLocalPaperFill(ledger'[d]) /\ ~ VenueBooked(book, d)
               /\ IsLocalPaperFill(file'[d]) \/ Unsaved(d)'
    BY <1>1, <2>1, <2>2 DEF SourceInv, PaperFillMarked
  <2>3. ASSUME NEW d \in Decisions \ ReduceOnly, PaperBooked(bookFile.book, d)
        PROVE  IsLocalPaperFill(file'[d]) /\ ~ VenueBooked(bookFile.book, d)
    BY <2>1, <2>3 DEF SourceInv, PaperFillMarked
  <2>4. ASSUME NEW d \in Decisions \ ReduceOnly, IsLocalPaperFill(file'[d])
        PROVE  IsLocalPaperFill(ledger'[d])
    BY <2>1, <2>4
  <2>5. /\ \A row : IsLocalPaperFill(row)' <=> IsLocalPaperFill(row)
        /\ book' = book /\ bookFile' = bookFile
    BY DEF IsLocalPaperFill, FeesModelled
  <2> QED
    BY <2>2, <2>3, <2>4, <2>5 DEF PaperFillMarked, PaperBooked, VenueBooked
<1> QED
  BY <1>2, <1>3 DEF SourceInv

(* The checkpoint is written after the cycle's, or the pass's, save. *)
LEMMA SourceCheckpoint ==
    ASSUME SourceInv, Checkpoint \/ SaveBook
    PROVE  SourceInv'
<1>1. /\ task \in {"checkpoint", "saveBook"} /\ task' \in {"idle", "nav"}
      /\ bookFile'.book = book
      /\ UNCHANGED <<ledger, file, book>>
  BY DEF Checkpoint, SaveBook, vars
<1>2. \A d : ~ Unsaved(d)
  BY <1>1 DEF Unsaved
<1>3. BookedHasRow'
  BY <1>1, <1>2 DEF SourceInv, BookedHasRow, PaperBooked, VenueBooked
<1>4. PaperFillMarked'
  BY <1>1, <1>2 DEF SourceInv, PaperFillMarked, PaperBooked, VenueBooked
<1> QED
  BY <1>3, <1>4 DEF SourceInv

(* A restart takes the ledger and the book from files that agree. *)
LEMMA SourceRestart ==
    ASSUME SourceInv, Restart
    PROVE  SourceInv'
<1>1. /\ ledger' = file /\ file' = file /\ book' = bookFile.book /\ bookFile' = bookFile
      /\ task' \in {"boot", "idle"}
  BY DEF Restart, Crash, Boot
<1>2. BookedHasRow'
  BY <1>1 DEF SourceInv, BookedHasRow, PaperBooked, VenueBooked
<1>3. PaperFillMarked'
  BY <1>1 DEF SourceInv, PaperFillMarked, PaperBooked, VenueBooked
<1> QED
  BY <1>2, <1>3 DEF SourceInv

(* A paper fill is that of a decision with nothing in the book. *)
LEMMA SourceFill ==
    ASSUME PlaneInv, SourceInv, FillApplied
    PROVE  SourceInv'
<1>1. /\ task = "fill" /\ task' = "saveFill"
      /\ UNCHANGED <<file, subject, bookFile>>
  BY DEF FillApplied
<1>2. /\ subject \in Decisions
      /\ ledger[subject].state \notin TerminalStates
      /\ \A e \in Decisions \ {subject} : ledger'[e] = ledger[e]
      /\ ledger'[subject] # NoOrder
  BY FillEffect
<1>3. ~ PaperBooked(book, subject) /\ ~ VenueBooked(book, subject)
  BY <1>1, <1>2 DEF SourceInv, BookedHasRow
<1>4. ~ IsLocalPaperFill(ledger[subject])
  BY <1>2 DEF IsLocalPaperFill, TerminalStates
<1>5. /\ \A e \in Decisions \ {subject} : book'[e] = book[e]
      /\ ~ VenueBooked(book', subject)
      /\ subject \notin ReduceOnly /\ PaperBooked(book', subject) =>
            IsLocalPaperFill(ledger'[subject])
  <2>1. CASE UNCHANGED <<book, position>>
    BY <1>3, <2>1
  <2>2. CASE ~ UNCHANGED <<book, position>>
    <3>1. PICK lots \in SUBSET (Lot \ VenueLot) :
             /\ Cardinality(lots) \in Nat
             /\ ApplyFillAccepts(subject, lots) /\ ApplyFill(subject, lots)
             /\ ledger'[subject].fills = lots
             /\ subject \notin ReduceOnly =>
                   ledger'[subject].state = "FILLED" /\ lots # {}
      BY <2>2, FillEffect
    <3>2. /\ \A e \in Decisions \ {subject} : book'[e] = book[e]
          /\ \A lot \in Lot : book'[subject][lot] =
                IF lot \in lots THEN book[subject][lot] + 1 ELSE book[subject][lot]
      BY <1>2, <3>1, BookStep DEF PlaneInv, PlaneTypes
    <3>3. VenueLot \subseteq Lot
      BY DEF Lot
    <3>4. ~ VenueBooked(book', subject)
      BY <1>3, <3>1, <3>2, <3>3 DEF VenueBooked
    <3>5. subject \notin ReduceOnly => IsLocalPaperFill(ledger'[subject])
      BY <3>1 DEF IsLocalPaperFill, FeesModelled
    <3> QED
      BY <3>2, <3>4, <3>5
  <2> QED
    BY <2>1, <2>2
<1>6. ASSUME NEW b, NEW c, NEW e, b[e] = c[e]
      PROVE  (PaperBooked(b, e) <=> PaperBooked(c, e))
             /\ (VenueBooked(b, e) <=> VenueBooked(c, e))
  BY <1>6 DEF PaperBooked, VenueBooked
<1>7. BookedHasRow'
  <2>1. ASSUME NEW d \in Decisions, PaperBooked(book', d) \/ VenueBooked(book', d)
        PROVE  ledger'[d] # NoOrder /\ (file[d] # NoOrder \/ Unsaved(d)')
    <3>1. CASE d = subject
      BY <1>1, <1>2, <3>1 DEF Unsaved
    <3>2. CASE d # subject
      BY <1>1, <1>2, <1>5, <1>6, <2>1, <3>2 DEF SourceInv, BookedHasRow, Unsaved
    <3> QED
      BY <3>1, <3>2
  <2> QED
    BY <1>1, <2>1 DEF SourceInv, BookedHasRow
<1>8. PaperFillMarked'
  <2>1. ASSUME NEW d \in Decisions \ ReduceOnly, PaperBooked(book', d)
        PROVE  /\ IsLocalPaperFill(ledger'[d])
               /\ IsLocalPaperFill(file[d]) \/ Unsaved(d)'
               /\ ~ VenueBooked(book', d)
    <3>1. CASE d = subject
      BY <1>1, <1>5, <2>1, <3>1 DEF Unsaved
    <3>2. CASE d # subject
      BY <1>1, <1>2, <1>5, <1>6, <2>1, <3>2 DEF SourceInv, PaperFillMarked, Unsaved
    <3> QED
      BY <3>1, <3>2
  <2>2. ASSUME NEW d \in Decisions \ ReduceOnly, IsLocalPaperFill(file[d])
        PROVE  IsLocalPaperFill(ledger'[d])
    BY <1>2, <1>4, <2>2 DEF SourceInv, PaperFillMarked
  <2> QED
    BY <1>1, <2>1, <2>2 DEF SourceInv, PaperFillMarked
<1> QED
  BY <1>7, <1>8 DEF SourceInv

(* A venue trade is applied to a row that is on disk and no paper fill. *)
LEMMA SourceTrade ==
    ASSUME PlaneInv, SourceInv, NEW t \in pending, ApplyTrade(t)
    PROVE  SourceInv'
<1>1. /\ task = "apply" /\ task' \in {"apply", "idle"}
      /\ UNCHANGED <<file, bookFile>>
  BY DEF ApplyTrade, PassAborts, Strands, PassEnds
<1>2. /\ t.d \in Decisions /\ t.lot \in VenueLot
      /\ file[t.d] # NoOrder /\ ~ IsLocalPaperFill(ledger[t.d])
      /\ \A e \in Decisions \ {t.d} : ledger'[e] = ledger[e]
      /\ RowWritten(ledger[t.d], ledger'[t.d])
      /\ Cardinality({t.lot}) = 1
      /\ \/ ApplyFillAccepts(t.d, {t.lot}) /\ ApplyFill(t.d, {t.lot})
         \/ UNCHANGED <<book, position>>
  BY TradeEffect
<1>3. ledger'[t.d] # NoOrder
  BY <1>2 DEF RowWritten, Order, NoOrder
<1>4. /\ \A e \in Decisions \ {t.d} : book'[e] = book[e]
      /\ \A lot \in Lot \ VenueLot : book'[t.d][lot] = book[t.d][lot]
  <2>1. CASE UNCHANGED <<book, position>>
    BY <2>1
  <2>2. CASE ApplyFillAccepts(t.d, {t.lot}) /\ ApplyFill(t.d, {t.lot})
    <3>1. /\ \A e \in Decisions \ {t.d} : book'[e] = book[e]
          /\ \A lot \in Lot : book'[t.d][lot] =
                IF lot \in {t.lot} THEN book[t.d][lot] + 1 ELSE book[t.d][lot]
      BY <1>2, <2>2, BookStep DEF PlaneInv, PlaneTypes
    <3> QED
      BY <1>2, <3>1
  <2> QED
    BY <1>2, <2>1, <2>2
<1>5. t.d \notin ReduceOnly => ~ PaperBooked(book', t.d) /\ ~ IsLocalPaperFill(file[t.d])
  <2>1. PaperBooked(book', t.d) => PaperBooked(book, t.d)
    BY <1>4 DEF PaperBooked
  <2> QED
    BY <1>2, <2>1 DEF SourceInv, PaperFillMarked
<1>6. \A d : ~ Unsaved(d)
  BY <1>1 DEF Unsaved
<1>7. ASSUME NEW b, NEW c, NEW e, b[e] = c[e]
      PROVE  (PaperBooked(b, e) <=> PaperBooked(c, e))
             /\ (VenueBooked(b, e) <=> VenueBooked(c, e))
  BY <1>7 DEF PaperBooked, VenueBooked
<1>8. BookedHasRow'
  <2>1. ASSUME NEW d \in Decisions, PaperBooked(book', d) \/ VenueBooked(book', d)
        PROVE  ledger'[d] # NoOrder /\ file[d] # NoOrder
    <3>1. CASE d = t.d
      BY <1>2, <1>3, <3>1
    <3>2. CASE d # t.d
      BY <1>2, <1>4, <1>6, <1>7, <2>1, <3>2 DEF SourceInv, BookedHasRow
    <3> QED
      BY <3>1, <3>2
  <2> QED
    BY <1>1, <2>1 DEF SourceInv, BookedHasRow
<1>9. PaperFillMarked'
  <2>1. ASSUME NEW d \in Decisions \ ReduceOnly, PaperBooked(book', d)
        PROVE  /\ IsLocalPaperFill(ledger'[d]) /\ IsLocalPaperFill(file[d])
               /\ ~ VenueBooked(book', d)
    <3>1. d # t.d
      BY <1>5, <2>1
    <3> QED
      BY <1>2, <1>4, <1>6, <1>7, <2>1, <3>1 DEF SourceInv, PaperFillMarked
  <2>2. ASSUME NEW d \in Decisions \ ReduceOnly, IsLocalPaperFill(file[d])
        PROVE  IsLocalPaperFill(ledger'[d])
    BY <1>2, <1>5, <2>2 DEF SourceInv, PaperFillMarked
  <2> QED
    BY <1>1, <2>1, <2>2 DEF SourceInv, PaperFillMarked
<1> QED
  BY <1>8, <1>9 DEF SourceInv

LEMMA SourceStep ==
    ASSUME ~ SavesFail, PlaneInv, SourceInv, [PlaneNext]_allVars
    PROVE  SourceInv'
<1>1. ASSUME \/ \E d \in Decisions : CycleWithoutSubmission(d) \/ CycleRefused(d)
             \/ QuietCycle \/ FillWithheld \/ FillRefused \/ CycleRaises
             \/ FetchOrders \/ FetchTrades \/ FetchFails
             \/ \E t \in pending : SkipTrade(t) \/ TradeRaises(t)
             \/ PassSaveRaises \/ PassCompletes \/ NavDrifts
             \/ VenueStep
      PROVE  SourceInv'
  <2>1. UNCHANGED <<ledger, file, book, bookFile>>
    BY <1>1, QuietEffect
  <2>2. /\ task = "saveFill" => task' = "saveFill" /\ subject' = subject
        /\ task' \in {"submitting", "fill"} =>
              \/ task \in {"submitting", "fill"} /\ subject' = subject
              \/ ledger[subject'] = NoOrder
    <3>1. ASSUME NEW d \in Decisions, CycleWithoutSubmission(d) \/ CycleRefused(d)
          PROVE  task = "idle" /\ task' = "fill" /\ ledger[subject'] = NoOrder
      <4>1. ledger[d] \in Order \cup {NoOrder}
        BY DEF PlaneInv, CoreInv, TypeOK
      <4> QED
        BY <3>1, <4>1, PresentRow
           DEF CycleWithoutSubmission, CycleRefused, SubmitFreshRefused
    <3>2. CASE \/ QuietCycle \/ FillWithheld \/ FillRefused \/ CycleRaises
               \/ FetchOrders \/ FetchTrades \/ FetchFails
               \/ PassSaveRaises \/ PassCompletes \/ NavDrifts
      BY <3>2 DEF QuietCycle, FillWithheld, FillRefused, CycleRaises, FetchOrders,
                  FetchTrades, FetchFails, PassSaveRaises, PassCompletes, NavDrifts,
                  PassAborts, Strands, PassEnds
    <3>3. CASE \E t \in pending : SkipTrade(t) \/ TradeRaises(t)
      BY <3>3 DEF SkipTrade, TradeRaises, PassAborts, Strands, PassEnds, cycleVars
    <3>4. CASE VenueStep
      BY <3>4 DEF VenueStep, VenueFill, VenueClose, planeVars, cycleVars
    <3> QED
      BY <1>1, <3>1, <3>2, <3>3, <3>4
  <2> QED
    BY <2>1, <2>2, SourceKept
<1>2. ASSUME NEW d \in Decisions, CycleSubmits(d) PROVE SourceInv'
  <2>1. /\ SubmitFresh(d, position) /\ ledger[d].state = "NONE"
        /\ task = "idle" /\ subject' = d
        /\ UNCHANGED <<book, bookFile, file>>
    BY <1>2 DEF CycleSubmits, SubmitFresh, bookVars
  <2>2. PICK q : ledger' = [ledger EXCEPT ![d] = PlannedOrder(q)]
    BY <2>1 DEF SubmitFresh
  <2>3. /\ ledger \in [Decisions -> Order \cup {NoOrder}] /\ ledger[d] = NoOrder
    BY <2>1, PresentRow DEF PlaneInv, CoreInv, TypeOK
  <2>4. PlannedOrder(q) # NoOrder /\ ~ IsLocalPaperFill(ledger[d])
    BY <2>3 DEF PlannedOrder, NoOrder, IsLocalPaperFill
  <2>5. \A e \in Decisions :
           /\ ledger[e] # NoOrder => ledger'[e] # NoOrder
           /\ IsLocalPaperFill(ledger[e]) => ledger'[e] = ledger[e]
    BY <2>2, <2>3, <2>4
  <2> QED
    BY <2>1, <2>3, <2>5, SourceKept
<1>3. CASE SubmitterStep
  <2>1. /\ task = "submitting"
        /\ task' \in {"submitting", "fill"} => subject' = subject
        /\ UNCHANGED <<book, bookFile>>
    BY <1>3 DEF SubmitterStep, bookVars
  <2>2. /\ file' \in {file, ledger}
        /\ \A e \in Decisions :
              /\ ledger[e] # NoOrder => ledger'[e] # NoOrder
              /\ ledger[e].state \notin InCall => ledger'[e] = ledger[e]
    BY <1>3, SubmitterEffect DEF PlaneInv
  <2>3. \A e \in Decisions : IsLocalPaperFill(ledger[e]) => ledger[e].state \notin InCall
    BY DEF IsLocalPaperFill, InCall
  <2> QED
    BY <2>1, <2>2, <2>3, SourceKept
<1>4. CASE SaveFill \/ SaveLedger
  <2>1. /\ file' = ledger /\ task' \notin {"submitting", "fill"}
        /\ UNCHANGED <<ledger, book, bookFile>>
    BY <1>4 DEF SaveFill, SaveLedger, bookVars
  <2> QED
    BY <2>1, SourceKept
<1>5. CASE ApplyStatuses
  <2>1. /\ task = "apply" /\ task' = "saveLedger"
        /\ UNCHANGED <<file, book, bookFile>>
    BY <1>5 DEF ApplyStatuses, bookVars
  <2>2. \A d \in Decisions :
           /\ ledger[d] # NoOrder => ledger'[d] # NoOrder
           /\ IsLocalPaperFill(ledger[d]) => ledger'[d] = ledger[d]
    <3>1. \A d \in Decisions :
             \/ ledger'[d] = ledger[d]
             \/ ~ IsLocalPaperFill(ledger[d]) /\ ledger'[d] \in Order
      BY <1>5, StatusEffect DEF RowWritten
    <3>2. NoOrder \notin Order
      BY DEF Order, NoOrder
    <3> QED
      BY <3>1, <3>2
  <2> QED
    BY <2>1, <2>2, SourceKept
<1>6. CASE UNCHANGED allVars
  <2>1. UNCHANGED <<ledger, file, book, bookFile, task, subject>>
    BY <1>6 DEF allVars, planeVars, vars
  <2> QED
    BY <2>1, SourceKept
<1> QED
  BY <1>1, <1>2, <1>3, <1>4, <1>5, <1>6, SourceFill, SourceTrade, SourceCheckpoint,
     SourceRestart
     DEF PlaneNext, CycleStep, PassStep

(***************************************************************************)
(* However often the process dies, an entry is never booked both from its  *)
(* local paper fill and from its venue trades, provided that a save does   *)
(* not fail: the ledger is saved before the checkpoint (_run_symbol_safely,*)
(* reconcile_now), so a booked paper fill is one is_local_paper_fill       *)
(* recognises after every restart.                                         *)
(***************************************************************************)
THEOREM EntriesStayBookedOnce ==
    ASSUME ~ SavesFail
    PROVE  PlaneSpec => []EntriesBookedOnce
<1>1. PlaneInit => SourceInv
  BY DEF PlaneInit, Init, SourceInv, BookedHasRow, PaperFillMarked, PaperBooked,
         VenueBooked, EmptyBook, Lot, IsLocalPaperFill, NoOrder
<1>2. PlaneInv /\ SourceInv /\ [PlaneNext]_allVars => SourceInv'
  BY SourceStep
<1>3. SourceInv => EntriesBookedOnce
  <2> SUFFICES ASSUME SourceInv, NEW d \in Decisions \ ReduceOnly
               PROVE  BookedFromOneSource(d)
    BY DEF EntriesBookedOnce
  <2>1. ~ PaperBooked(book, d) \/ ~ VenueBooked(book, d)
    BY DEF SourceInv, PaperFillMarked
  <2> QED
    BY <2>1 DEF BookedFromOneSource, PaperBooked, VenueBooked
<1> QED
  BY <1>1, <1>2, <1>3, PlaneInvariance, PTL DEF PlaneSpec

-----------------------------------------------------------------------------
(***************************************************************************)
(* Every process: an order is closed with its trades recorded.             *)
(***************************************************************************)

(* The venue's orders are told apart by decision and number. *)
LEMMA OrderUnique ==
    ASSUME PlaneInv, OrderQuantity, NEW o \in wire \cup venue, NEW p \in wire \cup venue,
           o.d = p.d, o.k = p.k
    PROVE  o = p
<1>1. o \in Request /\ p \in Request
  BY DEF PlaneInv, CoreInv, TypeOK
<1>2. o.qty = p.qty
  BY DEF OrderQuantity
<1> QED
  BY <1>1, <1>2 DEF Request

(* What the submitter does to the row of its call. *)
LEMMA CallEffect ==
    ASSUME CoreInv, SubmitterStep
    PROVE  /\ \A e \in Decisions :
                 \/ ledger'[e] = ledger[e]
                 \/ /\ ledger[e].state \in InCall
                    /\ ledger'[e].vid = ledger[e].vid
                    /\ ledger'[e].state \in InCall \cup {"SUBMITTED", "REJECTED"}
                 \/ /\ e = cur /\ pc = "call" /\ answer = "accepted"
                    /\ ledger'[e].vid = ledger[cur].attempts
                    /\ ledger[e].state \in InCall /\ ledger'[e].state = "SUBMITTED"
           /\ \A r \in wire' :
                 r \in wire \/ (r.d = cur /\ r.qty = ledger[cur].qty /\ file' = ledger)
           /\ ~ (pc' = "call" /\ answer' = "accepted")
<1> USE DEF Return, AtGate, AtSave, MayRetry
<1>1. /\ cur \in Decisions /\ (ledger[cur].state \in InCall \/ pc = "saveResult")
      /\ ledger \in [Decisions -> Order \cup {NoOrder}]
  BY DEF SubmitterStep, GateUnanswered, GateAdopt, GateExhausted, GateRetry, CallStep,
         CallAccepted, CallRefused, CallUncertain, SaveStep, SavePlan, SaveAttempt,
         SaveUncertain, SaveResult, SaveRaises, CoreInv, ProgressInv, TypeOK, CallState,
         InCall
<1> DEFINE Written(e) ==
              \/ ledger'[e] = ledger[e]
              \/ /\ ledger[e].state \in InCall
                 /\ ledger'[e].vid = ledger[e].vid
                 /\ ledger'[e].state \in InCall \cup {"SUBMITTED", "REJECTED"}
              \/ /\ e = cur /\ pc = "call" /\ answer = "accepted"
                 /\ ledger'[e].vid = ledger[cur].attempts
                 /\ ledger[e].state \in InCall /\ ledger'[e].state = "SUBMITTED"
           Others == \A e \in Decisions \ {cur} : ledger'[e] = ledger[e]
           Sent == \A r \in wire' :
                      r \in wire \/ (r.d = cur /\ r.qty = ledger[cur].qty /\ file' = ledger)
           Answered == pc' = "call" /\ answer' = "accepted"
<1>2. CASE GateUnanswered \/ SaveUncertain \/ SaveResult \/ SaveRaises \/ SaveAttempt
  <2>1. ledger' = ledger
    BY <1>2 DEF GateUnanswered, SaveUncertain, SaveResult, SaveRaises, SaveAttempt
  <2>2. Sent
    <3>1. CASE SaveAttempt
      BY <3>1 DEF SaveAttempt
    <3>2. CASE ~ SaveAttempt
      BY <1>2, <3>2 DEF GateUnanswered, SaveUncertain, SaveResult, SaveRaises
    <3> QED
      BY <3>1, <3>2
  <2>3. ~ Answered
    BY <1>2 DEF GateUnanswered, SaveUncertain, SaveResult, SaveRaises, SaveAttempt
  <2> QED
    BY <2>1, <2>2, <2>3
<1>3. CASE GateAdopt \/ GateExhausted \/ CallRefused \/ CallUncertain
  <2>1. /\ \E st \in {"SUBMITTED", "REJECTED", "SUBMISSION_UNCERTAIN"} : SetState(cur, st)
        /\ pc # "saveResult" /\ wire' = wire /\ pc' # "call"
    BY <1>3 DEF GateAdopt, GateExhausted, CallRefused, CallUncertain
  <2>2. PICK st \in {"SUBMITTED", "REJECTED", "SUBMISSION_UNCERTAIN"} :
           ledger' = [ledger EXCEPT ![cur].state = st]
    BY <2>1 DEF SetState
  <2>3. cur \in Decisions /\ ledger[cur].state \in InCall
    BY <1>1, <2>1
  <2>4. ledger[cur] \in Order
    BY <1>1, <2>3 DEF InCall, NoOrder
  <2>5. Others /\ ledger'[cur].vid = ledger[cur].vid /\ ledger'[cur].state = st
    BY <1>1, <2>2, <2>3, <2>4 DEF Order
  <2>6. st \in InCall \cup {"SUBMITTED", "REJECTED"}
    BY DEF InCall
  <2>7. ASSUME NEW e \in Decisions PROVE Written(e)
    <3>1. CASE e = cur
      BY <2>3, <2>5, <2>6, <3>1
    <3>2. CASE e # cur
      BY <2>5, <3>2
    <3> QED
      BY <3>1, <3>2
  <2>8. Sent /\ ~ Answered
    BY <2>1
  <2> QED
    BY <2>7, <2>8
<1>4. CASE GateRetry \/ SavePlan
  <2>1. /\ ledger' = [ledger EXCEPT ![cur].attempts = ledger[cur].attempts + 1]
        /\ pc # "saveResult" /\ wire' = wire /\ pc' # "call"
    BY <1>4 DEF GateRetry, SavePlan
  <2>2. cur \in Decisions /\ ledger[cur].state \in InCall
    BY <1>1, <2>1
  <2>3. ledger[cur] \in Order
    BY <1>1, <2>2 DEF InCall, NoOrder
  <2>4. /\ Others /\ ledger'[cur].vid = ledger[cur].vid
        /\ ledger'[cur].state = ledger[cur].state
    BY <1>1, <2>1, <2>2, <2>3 DEF Order
  <2>7. ASSUME NEW e \in Decisions PROVE Written(e)
    <3>1. CASE e = cur
      BY <2>2, <2>4, <3>1
    <3>2. CASE e # cur
      BY <2>4, <3>2
    <3> QED
      BY <3>1, <3>2
  <2>8. Sent /\ ~ Answered
    BY <2>1
  <2> QED
    BY <2>7, <2>8
<1>5. CASE CallAccepted
  <2>1. /\ ledger' = [ledger EXCEPT ![cur].vid = ledger[cur].attempts,
                                    ![cur].state = "SUBMITTED"]
        /\ pc = "call" /\ answer = "accepted" /\ wire' = wire /\ pc' # "call"
    BY <1>5 DEF CallAccepted
  <2>2. cur \in Decisions /\ ledger[cur].state \in InCall
    BY <1>1, <2>1
  <2>3. ledger[cur] \in Order
    BY <1>1, <2>2 DEF InCall, NoOrder
  <2>4. /\ Others /\ ledger'[cur].vid = ledger[cur].attempts
        /\ ledger'[cur].state = "SUBMITTED"
    BY <1>1, <2>1, <2>2, <2>3 DEF Order
  <2>7. ASSUME NEW e \in Decisions PROVE Written(e)
    <3>1. CASE e = cur
      BY <2>1, <2>2, <2>4, <3>1
    <3>2. CASE e # cur
      BY <2>4, <3>2
    <3> QED
      BY <3>1, <3>2
  <2>8. Sent /\ ~ Answered
    BY <2>1
  <2> QED
    BY <2>7, <2>8
<1> QED
  BY <1>2, <1>3, <1>4, <1>5 DEF SubmitterStep, CallStep, SaveStep

(* A row is as good as before if the market has not moved ... *)
LEMMA RowKept ==
    ASSUME NEW d, NEW row, UNCHANGED <<venue, trades, closed, paper>>
    PROVE  RowGood(d, row)' <=> RowGood(d, row)
  BY DEF RowGood, RowSound, RowComplete, OneSource, Final, TradesOf

LEMMA RowsFrom ==
    ASSUME UNCHANGED <<venue, trades, closed, paper>>,
           \A d \in Decisions : RowGood(d, ledger'[d]),
           \A d \in Decisions : RowGood(d, file'[d])
    PROVE  RowsInv'
<1> SUFFICES ASSUME NEW d \in Decisions, NEW row, row \in {ledger'[d], file'[d]}
             PROVE  RowGood(d, row)'
  BY DEF RowsInv
<1>1. RowGood(d, row)
  OBVIOUS
<1> QED
  BY <1>1, RowKept

(* ... and nothing the venue does later makes it worse. *)
LEMMA FinalKept ==
    ASSUME PlaneInv, OrderQuantity, VenueStep, NEW o \in venue, Final(o)
    PROVE  Final(o)' /\ TradesOf(o)' = TradesOf(o)
<1>1. CASE NetworkStep /\ UNCHANGED planeVars
  BY <1>1 DEF planeVars, Final, TradesOf
<1>2. ASSUME NEW p \in venue, VenueFill(p) PROVE Final(o)' /\ TradesOf(o)' = TradesOf(o)
  <2>1. p # o
    BY <1>2, SubmissionAssumption DEF VenueFill, Final, PlaneInv, CoreInv, TypeOK, Request
  <2>2. ~ (p.d = o.d /\ p.k = o.k)
    BY <2>1, OrderUnique
  <2>3. PICK new : new.d = p.d /\ new.k = p.k /\ trades' = trades \cup {new}
    BY <1>2 DEF VenueFill
  <2>4. TradesOf(o)' = TradesOf(o)
    BY <2>2, <2>3 DEF TradesOf
  <2>5. closed' = closed
    BY <1>2 DEF VenueFill
  <2> QED
    BY <2>4, <2>5 DEF Final
<1>3. ASSUME NEW p \in venue, VenueClose(p) PROVE Final(o)' /\ TradesOf(o)' = TradesOf(o)
  <2>1. trades' = trades /\ closed \subseteq closed'
    BY <1>3 DEF VenueClose
  <2>2. TradesOf(o)' = TradesOf(o)
    BY <2>1 DEF TradesOf
  <2> QED
    BY <2>1, <2>2 DEF Final
<1> QED
  BY <1>1, <1>2, <1>3 DEF VenueStep

LEMMA MarketEffect ==
    ASSUME VenueStep
    PROVE  /\ UNCHANGED <<ledger, file, pc, cur, rows, pending, task, paper>>
           /\ wire' \subseteq wire /\ venue \subseteq venue'
           /\ venue' \subseteq venue \cup wire
  BY DEF VenueStep, NetworkStep, VenueAccept, VenueRefuse, RequestLost, VenueFill,
         VenueClose, planeVars, vars, cycleVars, passVars, runVars

LEMMA MarketRow ==
    ASSUME PlaneInv, OrderQuantity, VenueStep, NEW d \in Decisions, NEW row,
           RowGood(d, row)
    PROVE  RowGood(d, row)'
<1>1. /\ paper' = paper /\ venue \subseteq venue' /\ venue' \subseteq venue \cup wire
  BY MarketEffect
<1>2. RowSound(d, row)'
  BY <1>1 DEF RowGood, RowSound, OneSource
<1>3. RowComplete(d, row)'
  <2> SUFFICES ASSUME OneSource(d), row.state \in TerminalStates, ~ IsLocalPaperFill(row),
                      NEW o \in venue', o.d = d, o.k = row.vid
               PROVE  \/ 1 .. o.qty \subseteq row.fills
                      \/ Final(o)' /\ \A t \in TradesOf(o)' : t.lot \in row.fills
    BY <1>1 DEF RowComplete, OneSource
  <2>1. o \in venue
    <3>1. o \in Request /\ o.k # 0
      BY <1>1 DEF PlaneInv, CoreInv, TypeOK, Request
    <3>2. PICK p \in venue : p.d = d /\ p.k = row.vid
      BY <3>1 DEF RowGood, RowSound
    <3> QED
      BY <1>1, <3>2, OrderUnique
  <2>2. \/ 1 .. o.qty \subseteq row.fills
        \/ Final(o) /\ \A t \in TradesOf(o) : t.lot \in row.fills
    BY <2>1 DEF RowGood, RowComplete
  <2> QED
    BY <2>1, <2>2, FinalKept
<1> QED
  BY <1>2, <1>3 DEF RowGood

(* The venue and the network. *)
LEMMA ClosedMarket ==
    ASSUME PlaneInv, ClosedInv, VenueStep
    PROVE  ClosedInv'
<1> USE DEF ClosedInv
<1>1. /\ UNCHANGED <<ledger, file, pc, cur, rows, pending, task, paper>>
      /\ wire' \subseteq wire /\ venue \subseteq venue'
      /\ venue' \subseteq venue \cup wire
  BY MarketEffect
<1>2. OrderQuantity'
  BY <1>1 DEF OrderQuantity
<1>3. TradeLots'
  <2> SUFFICES ASSUME NEW t \in trades', NEW o \in venue', o.d = t.d, o.k = t.k
               PROVE  t.lot <= o.qty
    BY DEF TradeLots
  <2>1. o \in wire \cup venue
    BY <1>1
  <2>2. CASE t \in trades
    <3>1. PICK p \in venue : p.d = t.d /\ p.k = t.k
      BY <2>2 DEF PlaneInv, VenueInv
    <3>2. o = p
      BY <2>1, <3>1, OrderUnique
    <3> QED
      BY <2>2, <3>2 DEF TradeLots
  <2>3. CASE t \notin trades
    <3>1. PICK p \in venue : VenueFill(p)
      BY <2>3 DEF VenueStep, planeVars, VenueClose
    <3>2. /\ t = [d |-> p.d, k |-> p.k, lot |-> Cardinality(TradesOf(p)) + 1]
          /\ Cardinality(TradesOf(p)) < p.qty
      BY <2>3, <3>1 DEF VenueFill
    <3>3. o = p
      BY <2>1, <3>2, OrderUnique
    <3>4. Cardinality(TradesOf(p)) \in Nat
      <4>1. IsFiniteSet(trades) /\ TradesOf(p) \subseteq trades
        BY DEF PlaneInv, VenueInv, TradesOf
      <4> QED
        BY <4>1, FS_Subset, FS_CardinalityType
    <3>5. p.qty \in Nat
      BY DEF PlaneInv, CoreInv, TypeOK, Request
    <3>6. t.lot = Cardinality(TradesOf(p)) + 1
      BY <3>2
    <3> QED
      BY <3>2, <3>3, <3>4, <3>5, <3>6
  <2> QED
    BY <2>2, <2>3
<1>4. AnswerInv'
  <2>1. CASE answer' = answer
    BY <1>1, <2>1 DEF AnswerInv
  <2>2. CASE answer' # answer
    <3>1. PICK r \in wire : VenueAccept(r) \/ VenueRefuse(r)
      BY <2>2 DEF VenueStep, NetworkStep, RequestLost, VenueFill, VenueClose, vars
    <3>2. CASE VenueRefuse(r)
      BY <2>2, <3>2 DEF AnswerInv, VenueRefuse
    <3>3. CASE VenueAccept(r)
      BY <1>1, <2>2, <3>3 DEF AnswerInv, VenueAccept, Awaited
    <3> QED
      BY <3>1, <3>2, <3>3
  <2> QED
    BY <2>1, <2>2
<1>5. RowsInv'
  <2> SUFFICES ASSUME NEW d \in Decisions, NEW row, row \in {ledger'[d], file'[d]}
               PROVE  RowGood(d, row)'
    BY DEF RowsInv
  <2>1. RowGood(d, row)
    BY <1>1 DEF RowsInv
  <2> QED
    BY <2>1, MarketRow
<1>6. PassInv'
  <2> SUFFICES ASSUME NEW row \in rows, row.status \in {"FILLED", "CANCELLED"}
               PROVE  /\ Final(row.order)'
                      /\ task = "apply" =>
                            \A t \in TradesOf(row.order)' : t \in pending \/ Recorded(t)
    BY <1>1 DEF PassInv, Recorded, AccountedFor
  <2>1. row.order \in venue
    BY DEF PlaneInv, VenueInv
  <2>2. PICK o \in venue : o = row.order
    BY <2>1
  <2>3. /\ Final(o)
        /\ task = "apply" => \A t \in TradesOf(o) : t \in pending \/ Recorded(t)
    BY <2>2 DEF PassInv
  <2>4. Final(o)' /\ TradesOf(o)' = TradesOf(o)
    BY <2>3, FinalKept
  <2> QED
    BY <2>2, <2>3, <2>4
<1> QED
  BY <1>2, <1>3, <1>4, <1>5, <1>6

(* The other steps leave the market alone. *)
LEMMA ClosedFrom ==
    ASSUME ClosedInv, UNCHANGED <<venue, trades, closed, paper>>,
           \A d \in Decisions : RowGood(d, ledger'[d]),
           \A d \in Decisions : RowGood(d, file'[d]),
           OrderQuantity', AnswerInv', PassInv'
    PROVE  ClosedInv'
<1>1. RowsInv'
  BY RowsFrom
<1>2. TradeLots'
  BY DEF ClosedInv, TradeLots
<1> QED
  BY <1>1, <1>2 DEF ClosedInv

(* The statuses a pass holds stay final; outside the application of trades *)
(* nothing more is asked of them.                                          *)
LEMMA PassKept ==
    ASSUME PassInv, UNCHANGED <<trades, closed>>, rows' \in {rows, {}},
           task' # "apply" \/ rows' = {}
    PROVE  PassInv'
  BY DEF PassInv, Final, TradesOf

(* A pass that fetches, skips a trade or ends, and a cycle that submits    *)
(* nothing.                                                                *)
LEMMA ClosedQuiet ==
    ASSUME PlaneInv, ClosedInv,
           \/ \E d \in Decisions : CycleWithoutSubmission(d) \/ CycleRefused(d)
           \/ QuietCycle \/ FillWithheld \/ FillRefused \/ Checkpoint \/ CycleRaises
           \/ FetchOrders \/ FetchTrades \/ FetchFails
           \/ \E t \in pending : SkipTrade(t) \/ TradeRaises(t)
           \/ SaveBook \/ PassSaveRaises \/ PassCompletes \/ NavDrifts
    PROVE  ClosedInv'
<1>1. /\ UNCHANGED <<ledger, file, wire, venue, trades, closed, paper>>
      /\ UNCHANGED <<pc, cur, answer>> \/ pc' = "idle"
  BY DEF CycleWithoutSubmission, CycleRefused, SubmitFreshRefused, Return, QuietCycle,
         FillWithheld, FillRefused, Checkpoint, CycleRaises, FetchOrders, FetchTrades,
         FetchFails, SkipTrade, TradeRaises, SaveBook, PassSaveRaises, PassCompletes,
         NavDrifts, vars, marketVars, runVars
<1>2. OrderQuantity' /\ AnswerInv'
  BY <1>1 DEF ClosedInv, OrderQuantity, AnswerInv
<1>3. /\ \A d \in Decisions : RowGood(d, ledger'[d])
      /\ \A d \in Decisions : RowGood(d, file'[d])
  BY <1>1 DEF ClosedInv, RowsInv
<1>4. PassInv'
  <2>1. CASE FetchOrders
    <3>1. PICK status \in [venue -> OrderState] :
             /\ \A o \in venue : status[o] \in VenueStatus(o)
             /\ rows' = {[order |-> o, status |-> status[o]] : o \in venue}
      BY <2>1 DEF FetchOrders
    <3>2. task' # "apply"
      BY <2>1 DEF FetchOrders
    <3>3. ASSUME NEW row \in rows', row.status \in {"FILLED", "CANCELLED"}
          PROVE  Final(row.order)'
      <4>1. PICK o \in venue : row = [order |-> o, status |-> status[o]]
        BY <3>1
      <4>2. row.order = o /\ status[o] \in {"FILLED", "CANCELLED"}
        BY <3>3, <4>1
      <4>3. Final(o)
        BY <3>1, <4>2 DEF VenueStatus, Final
      <4> QED
        BY <1>1, <4>2, <4>3 DEF Final, TradesOf
    <3> QED
      BY <3>2, <3>3 DEF PassInv
  <2>2. CASE FetchTrades
    <3>1. rows' = rows /\ pending' = trades
      BY <2>2 DEF FetchTrades
    <3> QED
      BY <1>1, <3>1 DEF ClosedInv, PassInv, Final, TradesOf
  <2>3. ASSUME NEW t \in pending, SkipTrade(t) PROVE PassInv'
    <3>1. /\ rows' = rows /\ pending' = pending \ {t} /\ task = "apply" /\ Recorded(t)
      BY <2>3 DEF SkipTrade, TradeSkipped, Recorded
    <3> QED
      BY <1>1, <3>1 DEF ClosedInv, PassInv, Final, TradesOf, Recorded, AccountedFor
  <2>4. CASE \/ \E d \in Decisions : CycleWithoutSubmission(d) \/ CycleRefused(d)
             \/ QuietCycle \/ FillWithheld \/ FillRefused \/ Checkpoint \/ CycleRaises
             \/ FetchFails \/ \E t \in pending : TradeRaises(t)
             \/ SaveBook \/ PassSaveRaises \/ PassCompletes \/ NavDrifts
    <3>1. rows' \in {rows, {}} /\ task' # "apply"
      BY <2>4
         DEF CycleWithoutSubmission, CycleRefused, QuietCycle, FillWithheld, FillRefused,
             Checkpoint, CycleRaises, FetchFails, TradeRaises, SaveBook, PassSaveRaises,
             PassCompletes, NavDrifts, passVars, PassAborts, Strands, PassEnds
    <3> QED
      BY <1>1, <3>1, PassKept DEF ClosedInv
  <2> QED
    BY <2>1, <2>2, <2>3, <2>4
<1> QED
  BY <1>1, <1>2, <1>3, <1>4, ClosedFrom

(* What a save makes of the quantities. *)
LEMMA QuantitySaved ==
    ASSUME PlaneInv, OrderQuantity, file' = ledger, ledger' = ledger,
           venue' = venue, wire' \subseteq wire
    PROVE  OrderQuantity'
<1> SUFFICES ASSUME NEW r \in wire \cup venue PROVE r.qty = ledger[r.d].qty
  BY DEF OrderQuantity
<1>1. r.d \in Decisions /\ file[r.d] # NoOrder
  BY DEF PlaneInv, CoreInv, TypeOK, Request, ProgressInv, WriteAhead
<1> QED
  BY <1>1 DEF OrderQuantity

(* The submitter. *)
LEMMA ClosedSubmit ==
    ASSUME PlaneInv, ClosedInv,
           SubmitterStep \/ \E d \in Decisions : CycleSubmits(d)
    PROVE  ClosedInv'
<1>1. CASE SubmitterStep
  <2>1. /\ \A e \in Decisions :
              ledger'[e].fills = ledger[e].fills /\ ledger'[e].qty = ledger[e].qty
        /\ file' \in {file, ledger} /\ venue' = venue /\ cur \in Decisions
    BY <1>1, SubmitterEffect DEF PlaneInv
  <2>2. /\ \A r \in wire' :
              r \in wire \/ (r.d = cur /\ r.qty = ledger[cur].qty /\ file' = ledger)
        /\ ~ (pc' = "call" /\ answer' = "accepted")
    BY <1>1, CallEffect DEF PlaneInv
  <2>3. /\ task' # "apply" /\ UNCHANGED <<rows, trades, closed, paper>>
    BY <1>1 DEF SubmitterStep, passVars, marketVars, runVars
  <2>4. AnswerInv' /\ PassInv'
    BY <2>2, <2>3, PassKept DEF AnswerInv, ClosedInv
  <2>5. OrderQuantity'
    <3>1. ASSUME NEW d \in Decisions, file'[d] # NoOrder PROVE ledger'[d].qty = file'[d].qty
      BY <2>1, <3>1 DEF ClosedInv, OrderQuantity
    <3>2. ASSUME NEW r \in wire \cup venue PROVE r.qty = file'[r.d].qty
      <4>1. r.d \in Decisions /\ file[r.d] # NoOrder
        BY DEF PlaneInv, CoreInv, TypeOK, Request, ProgressInv, WriteAhead
      <4> QED
        BY <2>1, <4>1 DEF ClosedInv, OrderQuantity
    <3> QED
      BY <2>1, <2>2, <3>1, <3>2 DEF OrderQuantity
  <2>6. ASSUME NEW d \in Decisions PROVE RowGood(d, ledger'[d]) /\ RowGood(d, file'[d])
    <3>1. RowGood(d, ledger[d]) /\ RowGood(d, file[d])
      BY DEF ClosedInv, RowsInv
    <3>2. CASE ledger'[d] = ledger[d]
      BY <2>1, <3>1, <3>2
    <3>3. CASE /\ ledger[d].state \in InCall
               /\ ledger'[d].vid = ledger[d].vid
               /\ ledger'[d].state \in InCall \cup {"SUBMITTED", "REJECTED"}
      <4>1. ledger'[d].vid = 0
        BY <3>1, <3>3 DEF RowGood, RowSound
      <4>2. ~ IsLocalPaperFill(ledger[d])
        BY <3>3 DEF IsLocalPaperFill, InCall
      <4>3. RowSound(d, ledger'[d])
        BY <2>1, <3>1, <4>1, <4>2 DEF RowGood, RowSound
      <4>4. \A o \in venue : o.k # 0
        BY DEF PlaneInv, CoreInv, TypeOK, Request
      <4>5. RowComplete(d, ledger'[d])
        BY <4>1, <4>4 DEF RowComplete
      <4> QED
        BY <2>1, <3>1, <4>3, <4>5 DEF RowGood
    <3>4. CASE /\ d = cur /\ pc = "call" /\ answer = "accepted"
               /\ ledger'[d].vid = ledger[cur].attempts
               /\ ledger[d].state \in InCall /\ ledger'[d].state = "SUBMITTED"
      <4>1. \E o \in venue : o.d = d /\ o.k = ledger'[d].vid
        BY <3>4 DEF ClosedInv, AnswerInv
      <4>2. ~ IsLocalPaperFill(ledger[d])
        BY <3>4 DEF IsLocalPaperFill, InCall
      <4>3. RowSound(d, ledger'[d])
        BY <2>1, <3>1, <3>4, <4>1, <4>2 DEF RowGood, RowSound, InCall
      <4>4. RowComplete(d, ledger'[d])
        BY <3>4 DEF RowComplete, TerminalStates
      <4> QED
        BY <2>1, <3>1, <4>3, <4>4 DEF RowGood
    <3> QED
      BY <1>1, <3>2, <3>3, <3>4, CallEffect DEF PlaneInv
  <2> QED
    BY <2>1, <2>3, <2>4, <2>5, <2>6, ClosedFrom
<1>2. ASSUME NEW d \in Decisions, CycleSubmits(d) PROVE ClosedInv'
  <2>1. /\ SubmitFresh(d, position) /\ task' = "submitting"
        /\ UNCHANGED <<rows, trades, closed, paper>>
    BY <1>2 DEF CycleSubmits, passVars, marketVars, runVars
  <2>2. /\ pc' = "savePlan" /\ UNCHANGED <<file, wire, venue>>
        /\ ledger[d].state = "NONE"
    BY <2>1 DEF SubmitFresh
  <2>3. PICK q : ledger' = [ledger EXCEPT ![d] = PlannedOrder(q)]
    BY <2>1 DEF SubmitFresh
  <2>4. /\ ledger'[d] = PlannedOrder(q)
        /\ \A e \in Decisions \ {d} : ledger'[e] = ledger[e]
    BY <2>3 DEF PlaneInv, CoreInv, TypeOK
  <2>5. file[d] = NoOrder
    <3>1. ledger[d] \in Order \cup {NoOrder}
      BY DEF PlaneInv, CoreInv, TypeOK
    <3>2. ledger[d] = NoOrder
      BY <2>2, <3>1, PresentRow
    <3> QED
      BY <3>2 DEF PlaneInv, CoreInv, ProgressInv, LedgerAhead, RowProgress
  <2>6. AnswerInv' /\ PassInv'
    BY <2>1, <2>2, PassKept DEF AnswerInv, ClosedInv
  <2>7. OrderQuantity'
    BY <2>2, <2>4, <2>5 DEF ClosedInv, OrderQuantity
  <2>8. RowGood(d, PlannedOrder(q))
    BY DEF RowGood, RowSound, RowComplete, PlannedOrder, TerminalStates
  <2>9. /\ \A e \in Decisions : RowGood(e, ledger'[e])
        /\ \A e \in Decisions : RowGood(e, file'[e])
    BY <2>2, <2>4, <2>8 DEF ClosedInv, RowsInv
  <2> QED
    BY <2>1, <2>2, <2>6, <2>7, <2>9, ClosedFrom
<1> QED
  BY <1>1, <1>2

(* The saves of the ledger, and the restart that reads it back. *)
LEMMA ClosedSave ==
    ASSUME PlaneInv, ClosedInv, SaveFill \/ SaveLedger \/ Restart
    PROVE  ClosedInv'
<1>1. /\ \/ file' = ledger /\ ledger' = ledger /\ UNCHANGED <<pc, cur, answer>>
         \/ ledger' = file /\ file' = file /\ pc' = "idle"
      /\ UNCHANGED <<wire, venue, trades, closed, paper>>
      /\ rows' \in {rows, {}} /\ (task' # "apply" \/ rows' = {})
  BY DEF SaveFill, SaveLedger, Restart, Crash, submitterVars, passVars, marketVars, runVars
<1>2. AnswerInv' /\ PassInv'
  BY <1>1, PassKept DEF ClosedInv, AnswerInv
<1>3. OrderQuantity'
  <2>1. CASE ledger' = file /\ file' = file
    BY <1>1, <2>1 DEF ClosedInv, OrderQuantity
  <2> QED
    BY <1>1, <2>1, QuantitySaved DEF ClosedInv
<1>4. /\ \A d \in Decisions : RowGood(d, ledger'[d])
      /\ \A d \in Decisions : RowGood(d, file'[d])
  BY <1>1 DEF ClosedInv, RowsInv
<1> QED
  BY <1>1, <1>2, <1>3, <1>4, ClosedFrom

(* Quantities stay those of the file while fills and statuses are written. *)
LEMMA QuantityWritten ==
    ASSUME PlaneInv, OrderQuantity, UNCHANGED <<file, wire, venue>>,
           \A d \in Decisions :
              ledger'[d] = ledger[d] \/ RowWritten(ledger[d], ledger'[d])
    PROVE  OrderQuantity'
<1>1. ASSUME NEW d \in Decisions, file[d] # NoOrder PROVE ledger'[d].qty = file[d].qty
  <2>1. ledger[d] # NoOrder
    BY <1>1 DEF PlaneInv, CoreInv, ProgressInv, LedgerAhead, RowProgress
  <2> QED
    BY <1>1, <2>1 DEF OrderQuantity, RowWritten
<1> QED
  BY <1>1 DEF OrderQuantity

(* The paper fill of a cycle. *)
LEMMA ClosedFill ==
    ASSUME PlaneInv, ClosedInv, FillApplied
    PROVE  ClosedInv'
<1>1. /\ paper /\ task' = "saveFill"
      /\ UNCHANGED <<file, wire, venue, pc, cur, answer, rows, trades, closed, paper>>
  BY DEF FillApplied, PaperFillEnabled, submitterVars, passVars, marketVars, runVars
<1>2. /\ subject \in Decisions
      /\ \A e \in Decisions \ {subject} : ledger'[e] = ledger[e]
      /\ ledger'[subject] = ledger[subject] \/ RowWritten(ledger[subject], ledger'[subject])
  BY FillEffect
<1>3. PassInv'
  BY <1>1, PassKept DEF ClosedInv
<1>4. AnswerInv'
  <2>1. pc = "idle"
    BY DEF FillApplied, PlaneInv, CycleInv
  <2> QED
    BY <1>1, <2>1 DEF AnswerInv
<1>5. OrderQuantity'
  BY <1>1, <1>2, QuantityWritten DEF ClosedInv
<1>6. RowGood(subject, ledger'[subject])
  <2>1. RowGood(subject, ledger[subject])
    BY <1>2 DEF ClosedInv, RowsInv
  <2>2. CASE ledger'[subject] = ledger[subject]
    BY <2>1, <2>2
  <2>3. CASE RowWritten(ledger[subject], ledger'[subject])
    <3> DEFINE old == ledger[subject]
               new == ledger'[subject]
    <3>1. /\ new \in Order /\ new.vid = old.vid /\ new.state # "SUBMISSION_UNCERTAIN"
          /\ old # NoOrder => IsLegalTransition(old.state, new.state)
      BY <2>3 DEF RowWritten
    <3>2. old \in Order \cup {NoOrder}
      BY <1>2 DEF PlaneInv, CoreInv, TypeOK
    <3>3. new.state \in InCall => new.vid = 0
      <4>1. CASE old = NoOrder
        BY <3>1, <4>1 DEF NoOrder
      <4>2. CASE old # NoOrder
        <5>1. old.state \in OrderState
          BY <3>2, <4>2, PresentRow
        <5>2. new.state = "PLANNED" => old.state = "PLANNED"
          BY <3>1, <4>2, <5>1
             DEF IsLegalTransition, AllowedTransitions, OrderState, ClosingStates,
                 TerminalStates
        <5> QED
          BY <2>1, <3>1, <5>2 DEF InCall, RowGood, RowSound
      <4> QED
        BY <4>1, <4>2
    <3>4. CASE new.fills = {} /\ new.state \notin TerminalStates
      BY <2>1, <3>1, <3>3, <3>4 DEF RowGood, RowSound, RowComplete
    <3>5. CASE ~ (new.fills = {} /\ new.state \notin TerminalStates)
      <4>1. PICK lots \in SUBSET (Lot \ VenueLot) :
               /\ new.fills = lots
               /\ subject \notin ReduceOnly => new.state = "FILLED" /\ lots # {}
        BY <3>5, FillEffect
      <4>2. OneSource(subject) => IsLocalPaperFill(new)
        BY <1>1, <4>1 DEF OneSource, IsLocalPaperFill, FeesModelled
      <4> QED
        BY <2>1, <3>1, <3>3, <4>2 DEF RowGood, RowSound, RowComplete
    <3> QED
      BY <3>4, <3>5
  <2> QED
    BY <1>2, <2>2, <2>3
<1>7. /\ \A d \in Decisions : RowGood(d, ledger'[d])
      /\ \A d \in Decisions : RowGood(d, file'[d])
  BY <1>1, <1>2, <1>6 DEF ClosedInv, RowsInv
<1> QED
  BY <1>1, <1>3, <1>4, <1>5, <1>7, ClosedFrom

(* As many lots of an order as it has are all its lots. *)
LEMMA AllLots ==
    ASSUME NEW q \in Nat, NEW lots \in SUBSET (1 .. q), NEW lot \in 1 .. q,
           lot \notin lots, Cardinality(lots) + 1 = q
    PROVE  1 .. q \subseteq lots \cup {lot}
<1>1. IsFiniteSet(1 .. q) /\ Cardinality(1 .. q) = q
  BY FS_Interval
<1>2. IsFiniteSet(lots)
  BY <1>1, FS_Subset
<1>3. Cardinality(lots \cup {lot}) = q
  BY <1>2, FS_AddElement
<1>4. lots \cup {lot} \subseteq 1 .. q
  OBVIOUS
<1>5. lots \cup {lot} = 1 .. q
  <2>1. Cardinality(1 .. q) = Cardinality(lots \cup {lot}) => 1 .. q = lots \cup {lot}
    BY <1>1, <1>4, FS_Subset
  <2> QED
    BY <1>1, <1>3, <2>1
<1> QED
  BY <1>5

(* A trade a pass records: it fills its order only with the last lot. *)
LEMMA ClosedTrade ==
    ASSUME PlaneInv, ClosedInv, NEW t \in pending, ApplyTrade(t)
    PROVE  ClosedInv'
<1>1. /\ t.d \in Decisions /\ t.lot \in VenueLot
      /\ ledger[t.d] # NoOrder /\ file[t.d] # NoOrder
      /\ ~ IsLocalPaperFill(ledger[t.d]) /\ t.lot \notin ledger[t.d].fills
      /\ \A e \in Decisions \ {t.d} : ledger'[e] = ledger[e]
      /\ RowWritten(ledger[t.d], ledger'[t.d])
      /\ ledger'[t.d].fills = ledger[t.d].fills \cup {t.lot}
      /\ ledger'[t.d].state = StateAfterFill(ledger[t.d], {t.lot})
      /\ ledger[t.d].vid = t.k /\ Cardinality({t.lot}) = 1
  BY TradeEffect
<1>2. /\ task = "apply"
      /\ UNCHANGED <<file, wire, venue, pc, cur, answer, trades, closed, paper>>
      /\ \/ rows' = rows /\ pending' = pending \ {t}
         \/ rows' = {}
  BY DEF ApplyTrade, submitterVars, marketVars, runVars, PassAborts, Strands, PassEnds
<1>3. AnswerInv'
  <2>1. pc = "idle"
    BY <1>2 DEF PlaneInv, CycleInv
  <2> QED
    BY <1>2, <2>1 DEF AnswerInv
<1>4. OrderQuantity'
  BY <1>1, <1>2, QuantityWritten DEF ClosedInv
<1> DEFINE old == ledger[t.d]
           new == ledger'[t.d]
<1>5. RowGood(t.d, new)
  <2>1. RowGood(t.d, old)
    BY <1>1 DEF ClosedInv, RowsInv
  <2>2. /\ old \in Order /\ new.vid = t.k /\ new.qty = old.qty /\ old.qty \in Nat
    BY <1>1 DEF PlaneInv, CoreInv, TypeOK, RowWritten, Order
  <2>3. ASSUME NEW o \in venue, o.d = t.d, o.k = t.k
        PROVE  o.qty = old.qty /\ t.lot <= o.qty
    BY <1>1, <2>3 DEF ClosedInv, OrderQuantity, TradeLots, PlaneInv, VenueInv
  <2>4. PICK o \in venue : o.d = t.d /\ o.k = t.k
    BY DEF PlaneInv, VenueInv
  <2>5. t.lot \in 1 .. old.qty
    BY <1>1, <2>2, <2>3, <2>4, SubmissionAssumption DEF VenueLot
  <2>6. OneSource(t.d) => old.fills \subseteq 1 .. old.qty
    BY <1>1, <2>1 DEF RowGood, RowSound
  <2>7. new.state \in {"FILLED", "PARTIALLY_FILLED"}
    BY <1>1 DEF StateAfterFill
  <2>8. RowSound(t.d, new)
    BY <1>1, <2>2, <2>4, <2>5, <2>6, <2>7 DEF RowSound, InCall
  <2>9. OneSource(t.d) /\ new.state \in TerminalStates => 1 .. old.qty \subseteq new.fills
    <3> SUFFICES ASSUME OneSource(t.d), new.state \in TerminalStates
                 PROVE  1 .. old.qty \subseteq new.fills
      OBVIOUS
    <3>1. Cardinality(old.fills) + 1 = old.qty
      BY <1>1 DEF StateAfterFill, FilledQuantity, TerminalStates
    <3>2. PICK lots : lots = old.fills
      OBVIOUS
    <3>3. PICK q \in Nat : q = old.qty
      BY <2>2
    <3>4. 1 .. q \subseteq lots \cup {t.lot}
      BY <1>1, <2>5, <2>6, <3>1, <3>2, <3>3, AllLots
    <3> QED
      BY <1>1, <3>2, <3>3, <3>4
  <2>10. RowComplete(t.d, new)
    BY <2>2, <2>3, <2>9 DEF RowComplete
  <2> QED
    BY <2>8, <2>10 DEF RowGood
<1>6. /\ \A d \in Decisions : RowGood(d, ledger'[d])
      /\ \A d \in Decisions : RowGood(d, file'[d])
  BY <1>1, <1>2, <1>5 DEF ClosedInv, RowsInv
<1>7. PassInv'
  <2>1. CASE rows' = {}
    BY <2>1 DEF PassInv
  <2>2. CASE rows' = rows /\ pending' = pending \ {t}
    <3>1. new.vid = old.vid /\ t.lot \in new.fills /\ old.fills \subseteq new.fills
      BY <1>1 DEF RowWritten
    <3>2. ASSUME NEW s \in trades, s = t \/ Recorded(s) PROVE Recorded(s)'
      <4>1. s.d \in Decisions
        BY DEF PlaneInv, VenueInv, CoreInv, TypeOK, Request
      <4>2. CASE s.d = t.d
        <5>1. s.lot \in new.fills \/ ~ AccountedFor(s)
          BY <1>1, <3>1, <3>2, <4>2 DEF Recorded
        <5> QED
          BY <3>1, <4>2, <5>1 DEF Recorded, AccountedFor
      <4>3. CASE s.d # t.d
        <5>1. ledger'[s.d] = ledger[s.d]
          BY <1>1, <4>1, <4>3
        <5> QED
          BY <3>2, <4>3, <5>1 DEF Recorded, AccountedFor
      <4> QED
        BY <4>2, <4>3
    <3> SUFFICES ASSUME NEW row \in rows, row.status \in {"FILLED", "CANCELLED"}
                 PROVE  /\ Final(row.order)'
                        /\ \A s \in TradesOf(row.order)' : s \in pending' \/ Recorded(s)'
      BY <2>2 DEF PassInv
    <3>3. /\ Final(row.order)
          /\ \A s \in TradesOf(row.order) : s \in pending \/ Recorded(s)
      BY <1>2 DEF ClosedInv, PassInv
    <3>4. Final(row.order)' /\ TradesOf(row.order)' = TradesOf(row.order)
      BY <1>2, <3>3 DEF Final, TradesOf
    <3>5. ASSUME NEW s \in TradesOf(row.order) PROVE s \in pending' \/ Recorded(s)'
      <4>1. s \in trades
        BY DEF TradesOf
      <4> QED
        BY <2>2, <3>2, <3>3, <4>1
    <3> QED
      BY <3>4, <3>5
  <2> QED
    BY <1>2, <2>1, <2>2
<1> QED
  BY <1>2, <1>3, <1>4, <1>6, <1>7, ClosedFrom

(* The statuses are written once every fetched trade is handled. *)
LEMMA ClosedStatuses ==
    ASSUME PlaneInv, ClosedInv, ApplyStatuses
    PROVE  ClosedInv'
<1>1. /\ task = "apply" /\ pending = {} /\ rows' = {}
      /\ UNCHANGED <<file, wire, venue, pc, cur, answer, trades, closed, paper>>
  BY DEF ApplyStatuses, submitterVars, marketVars, runVars
<1>2. AnswerInv' /\ PassInv'
  <2>1. pc = "idle"
    BY <1>1 DEF PlaneInv, CycleInv
  <2> QED
    BY <1>1, <2>1 DEF AnswerInv, PassInv
<1>3. OrderQuantity'
  BY <1>1, StatusEffect, QuantityWritten DEF ClosedInv
<1>4. ASSUME NEW d \in Decisions PROVE RowGood(d, ledger'[d])
  <2>1. RowGood(d, ledger[d])
    BY DEF ClosedInv, RowsInv
  <2>2. CASE ledger'[d] = ledger[d]
    BY <2>1, <2>2
  <2>3. CASE ledger'[d] # ledger[d]
    <3>1. /\ ledger[d] # NoOrder /\ ~ IsLocalPaperFill(ledger[d])
          /\ RowWritten(ledger[d], ledger'[d])
          /\ ledger'[d].fills = ledger[d].fills
      BY <2>3, StatusEffect
    <3>2. PICK row \in rows : /\ row.order.d = d /\ row.order.k = ledger[d].vid
                              /\ row.status = ledger'[d].state
      BY <2>3, StatusEffect
    <3>3. /\ row.order \in venue
          /\ row.status \in {"OPEN", "PARTIALLY_FILLED", "FILLED", "CANCELLED"}
      BY DEF PlaneInv, VenueInv
    <3>4. ledger'[d].vid = ledger[d].vid /\ ledger'[d].qty = ledger[d].qty
      BY <3>1 DEF RowWritten
    <3>5. RowSound(d, ledger'[d])
      BY <2>1, <3>1, <3>2, <3>3, <3>4 DEF RowGood, RowSound, InCall
    <3>6. RowComplete(d, ledger'[d])
      <4> SUFFICES ASSUME ledger'[d].state \in TerminalStates,
                          NEW o \in venue, o.d = d, o.k = ledger[d].vid
                   PROVE  Final(o) /\ \A t \in TradesOf(o) : t.lot \in ledger[d].fills
        BY <3>1, <3>4 DEF RowComplete
      <4>1. o = row.order
        BY <3>2, <3>3, OrderUnique DEF ClosedInv
      <4>2. row.status \in {"FILLED", "CANCELLED"}
        BY <3>2, <3>3 DEF TerminalStates
      <4>3. /\ Final(o)
            /\ \A t \in TradesOf(o) : Recorded(t)
        BY <1>1, <4>1, <4>2 DEF ClosedInv, PassInv
      <4>4. ASSUME NEW t \in TradesOf(o) PROVE t.lot \in ledger[d].fills
        BY <3>1, <4>3 DEF TradesOf, Recorded, AccountedFor
      <4> QED
        BY <4>3, <4>4
    <3> QED
      BY <3>5, <3>6 DEF RowGood
  <2> QED
    BY <2>2, <2>3
<1>5. \A d \in Decisions : RowGood(d, file'[d])
  BY <1>1 DEF ClosedInv, RowsInv
<1> QED
  BY <1>1, <1>2, <1>3, <1>4, <1>5, ClosedFrom

LEMMA ClosedStep == PlaneInv /\ ClosedInv /\ [PlaneNext]_allVars => ClosedInv'
<1> SUFFICES ASSUME PlaneInv, ClosedInv, [PlaneNext]_allVars PROVE ClosedInv'
  OBVIOUS
<1>1. CASE CycleStep \/ PassStep \/ Restart
  BY <1>1, ClosedQuiet, ClosedSubmit, ClosedSave, ClosedFill, ClosedTrade, ClosedStatuses
     DEF CycleStep, PassStep
<1>2. CASE VenueStep
  BY <1>2, ClosedMarket
<1>3. CASE UNCHANGED allVars
  <2>1. /\ UNCHANGED <<ledger, file, wire, venue, pc, cur, answer>>
        /\ UNCHANGED <<task, rows, pending, trades, closed, paper>>
    BY <1>3 DEF allVars, vars, planeVars
  <2>2. OrderQuantity' /\ AnswerInv'
    BY <2>1 DEF ClosedInv, OrderQuantity, AnswerInv
  <2>3. PassInv'
    BY <2>1 DEF ClosedInv, PassInv, Final, TradesOf, Recorded, AccountedFor
  <2>4. /\ \A d \in Decisions : RowGood(d, ledger'[d])
        /\ \A d \in Decisions : RowGood(d, file'[d])
    BY <2>1 DEF ClosedInv, RowsInv
  <2> QED
    BY <2>1, <2>2, <2>3, <2>4, ClosedFrom
<1> QED
  BY <1>1, <1>2, <1>3 DEF PlaneNext

(***************************************************************************)
(* Whatever fails, however late a request arrives and however often the    *)
(* process dies between the pass and its saves: the rows in memory and on  *)
(* disk close an order only with all the trades it will ever have.         *)
(***************************************************************************)
THEOREM ClosedInvariance == PlaneSpec => []ClosedInv
<1>1. PlaneInit => ClosedInv
  <2> SUFFICES ASSUME PlaneInit PROVE ClosedInv
    OBVIOUS
  <2>1. \A d \in Decisions : ledger[d] = NoOrder /\ file[d] = NoOrder
    BY DEF PlaneInit, Init
  <2>2. \A d \in Decisions : RowGood(d, NoOrder)
    BY DEF RowGood, RowSound, RowComplete, NoOrder, TerminalStates
  <2>3. RowsInv
    BY <2>1, <2>2 DEF RowsInv
  <2>4. OrderQuantity /\ TradeLots /\ AnswerInv /\ PassInv
    BY DEF PlaneInit, Init, OrderQuantity, TradeLots, AnswerInv, PassInv
  <2> QED
    BY <2>3, <2>4 DEF ClosedInv
<1> QED
  BY <1>1, ClosedStep, PlaneInvariance, PTL DEF PlaneSpec

(***************************************************************************)
(* ClosedMeansRecorded, under any restarts, failing saves and late         *)
(* delivery: _fetch_state asks for the orders before the trades, and       *)
(* record_fill closes an order only with its last lot.  It leaves out the  *)
(* protective exits of a service that fills locally, which README.md       *)
(* describes.                                                              *)
(***************************************************************************)
THEOREM ClosedOrdersAreRecorded == PlaneSpec => []ClosedMeansRecorded
<1>1. PlaneInv /\ ClosedInv => ClosedMeansRecorded
  <2> SUFFICES ASSUME PlaneInv, ClosedInv, NEW d \in Decisions,
                      ledger[d].state \in TerminalStates, ~ IsLocalPaperFill(ledger[d]),
                      d \notin ReduceOnly \/ ~ paper,
                      NEW t \in trades, t.d = d, AccountedFor(t)
               PROVE  t.lot \in ledger[d].fills
    BY DEF ClosedMeansRecorded
  <2>1. OneSource(d)
    BY DEF OneSource
  <2>2. PICK o \in venue : o.d = d /\ o.k = ledger[d].vid /\ t \in TradesOf(o)
    BY DEF PlaneInv, VenueInv, AccountedFor, TradesOf
  <2>3. \/ 1 .. o.qty \subseteq ledger[d].fills
        \/ \A s \in TradesOf(o) : s.lot \in ledger[d].fills
    BY <2>1, <2>2 DEF ClosedInv, RowsInv, RowGood, RowComplete
  <2>4. t.lot \in 1 .. o.qty
    <3>1. t.lot <= o.qty /\ t.lot \in VenueLot /\ o.qty \in Nat
      BY <2>2 DEF ClosedInv, TradeLots, TradesOf, PlaneInv, VenueInv, CoreInv, TypeOK,
                  Request
    <3> QED
      BY <3>1, SubmissionAssumption DEF VenueLot
  <2> QED
    BY <2>2, <2>3, <2>4
<1> QED
  BY <1>1, ClosedInvariance, PlaneInvariance, PTL

-----------------------------------------------------------------------------
(***************************************************************************)
(* Every process: no lot is booked twice unless an exception stranded it.  *)
(***************************************************************************)

(* No step but a restart takes a fill out of a row, and the file follows.  *)
LEMMA RowsGrow ==
    ASSUME PlaneInv, [PlaneNext]_allVars, ~ Restart
    PROVE  /\ file' \in {file, ledger}
           /\ \A d \in Decisions : ledger[d].fills \subseteq ledger'[d].fills
<1>1. CASE file' \in {file, ledger} /\ ledger' = ledger
  BY <1>1
<1>2. ASSUME NEW d \in Decisions, CycleSubmits(d)
      PROVE  /\ file' = file
             /\ \A e \in Decisions : ledger[e].fills \subseteq ledger'[e].fills
  <2>1. /\ SubmitFresh(d, position) /\ ledger[d].state = "NONE" /\ file' = file
    BY <1>2 DEF CycleSubmits, SubmitFresh
  <2>2. PICK q : ledger' = [ledger EXCEPT ![d] = PlannedOrder(q)]
    BY <2>1 DEF SubmitFresh
  <2>3. ledger[d] = NoOrder
    BY <2>1, PresentRow DEF PlaneInv, CoreInv, TypeOK
  <2> QED
    BY <2>1, <2>2, <2>3 DEF PlaneInv, CoreInv, TypeOK, PlannedOrder, NoOrder
<1>3. CASE SubmitterStep
  BY <1>3, SubmitterEffect DEF PlaneInv
<1>4. CASE FillApplied
  <2>1. /\ subject \in Decisions /\ ledger[subject].fills = {}
        /\ \A e \in Decisions \ {subject} : ledger'[e] = ledger[e]
    BY <1>4, FillEffect
  <2>2. file' = file
    BY <1>4 DEF FillApplied
  <2> QED
    BY <2>1, <2>2
<1>5. ASSUME NEW t \in pending, ApplyTrade(t)
      PROVE  /\ file' = file
             /\ \A e \in Decisions : ledger[e].fills \subseteq ledger'[e].fills
  <2>1. /\ t.d \in Decisions
        /\ \A e \in Decisions \ {t.d} : ledger'[e] = ledger[e]
        /\ ledger'[t.d].fills = ledger[t.d].fills \cup {t.lot}
    BY <1>5, TradeEffect
  <2>2. file' = file
    BY <1>5 DEF ApplyTrade
  <2> QED
    BY <2>1, <2>2
<1>6. CASE ApplyStatuses
  <2>1. file' = file
    BY <1>6 DEF ApplyStatuses
  <2>2. \A d \in Decisions : ledger'[d].fills = ledger[d].fills
    BY <1>6, StatusEffect
  <2> QED
    BY <2>1, <2>2
<1>7. CASE SaveFill \/ SaveLedger \/ Checkpoint \/ SaveBook \/ UNCHANGED allVars
  BY <1>1, <1>7 DEF SaveFill, SaveLedger, Checkpoint, SaveBook, allVars, vars
<1> QED
  BY <1>1, <1>2, <1>3, <1>4, <1>5, <1>6, <1>7, QuietEffect
     DEF PlaneNext, CycleStep, PassStep

(***************************************************************************)
(* DurableLifecycle with everything that writes rows: submissions, local   *)
(* paper fills, venue fills and venue statuses, over restarts and saves    *)
(* that fail (record_fill, apply_state, ledger.save).                      *)
(***************************************************************************)
THEOREM PlaneLifecycleHolds == PlaneSpec => DurableLifecycle
<1>1. PlaneInv /\ [PlaneNext]_allVars
        => [\A d \in Decisions : RowProgress(file[d], file'[d])]_vars
  <2> SUFFICES ASSUME PlaneInv, [PlaneNext]_allVars, NEW d \in Decisions
               PROVE  RowProgress(file[d], file'[d])
    OBVIOUS
  <2>1. file[d] \in Order \cup {NoOrder}
    BY DEF PlaneInv, CoreInv, TypeOK
  <2>2. file' \in {file, ledger}
    <3>1. CASE Restart
      BY <3>1 DEF Restart, Crash
    <3>2. CASE ~ Restart
      BY <3>2, RowsGrow
    <3> QED
      BY <3>1, <3>2
  <2>3. CASE file' = file
    BY <2>1, <2>3, PresentRow DEF RowProgress, IsLegalTransition
  <2>4. CASE file' = ledger
    BY <2>4 DEF PlaneInv, CoreInv, ProgressInv, LedgerAhead
  <2> QED
    BY <2>2, <2>3, <2>4
<1> QED
  BY <1>1, PlaneInvariance, PTL DEF PlaneSpec, DurableLifecycle

LEMMA MemoryStep ==
    ASSUME PlaneInv, MemoryAhead, [PlaneNext]_allVars
    PROVE  MemoryAhead'
<1>1. CASE Restart
  BY <1>1 DEF MemoryAhead, Restart, Crash
<1>2. CASE ~ Restart
  <2> SUFFICES ASSUME NEW d \in Decisions
               PROVE  file'[d].fills \subseteq ledger'[d].fills
    BY DEF MemoryAhead
  <2>1. /\ file' \in {file, ledger}
        /\ ledger[d].fills \subseteq ledger'[d].fills
    BY <1>2, RowsGrow
  <2> QED
    BY <2>1 DEF MemoryAhead
<1> QED
  BY <1>1, <1>2

(* A step that leaves the book and its checkpoint alone loses no fill, and *)
(* the book stops being ahead only of what it saves or of what is          *)
(* stranded.                                                               *)
LEMMA BookedKept ==
    ASSUME BookedOnceInv, UNCHANGED <<book, bookFile>>, stranded \subseteq stranded',
           \A d \in Decisions :
              /\ ledger[d].fills \subseteq ledger'[d].fills
              /\ file[d].fills \subseteq file'[d].fills
              /\ Ahead(d) => Ahead(d)' \/ ledger[d].fills \subseteq file'[d].fills
                             \/ Strands
    PROVE  BookedOnceInv'
<1> SUFFICES ASSUME NEW d \in Decisions, NEW lot \in Lot, <<d, lot>> \notin stranded'
             PROVE  /\ book[d][lot] # 0 =>
                          /\ book[d][lot] = 1 /\ lot \in ledger'[d].fills
                          /\ lot \in file'[d].fills \/ Ahead(d)'
                    /\ bookFile.book[d][lot] # 0 =>
                          bookFile.book[d][lot] = 1 /\ lot \in file'[d].fills
  BY DEF BookedOnceInv, BookedOnce
<1>1. /\ book[d][lot] # 0 =>
            /\ book[d][lot] = 1 /\ lot \in ledger[d].fills
            /\ lot \in file[d].fills \/ Ahead(d)
      /\ bookFile.book[d][lot] # 0 => bookFile.book[d][lot] = 1 /\ lot \in file[d].fills
  BY DEF BookedOnceInv, BookedOnce
<1>2. Strands /\ book[d][lot] # 0 => lot \in file[d].fills
  <2> SUFFICES ASSUME Strands, book[d][lot] # 0, lot \notin file[d].fills PROVE FALSE
    OBVIOUS
  <2>1. <<d, lot>> \in UnsavedLots
    BY DEF UnsavedLots
  <2> QED
    BY <2>1 DEF Strands
<1> QED
  BY <1>1, <1>2

(* A step that applies lots not yet recorded, and records them, before a   *)
(* save of the ledger.                                                     *)
LEMMA BookedApplied ==
    ASSUME BookedOnceInv, book \in Book, position \in Nat, stranded \subseteq stranded',
           NEW d \in Decisions, NEW lots, Cardinality(lots) \in Nat,
           ApplyFillAccepts(d, lots), ApplyFill(d, lots),
           \A lot \in lots : lot \notin ledger[d].fills,
           ledger'[d].fills = ledger[d].fills \cup lots,
           \A e \in Decisions \ {d} : ledger'[e] = ledger[e],
           UNCHANGED <<file, bookFile>>,
           Ahead(d)', \A e \in Decisions \ {d} : Ahead(e) => Ahead(e)'
    PROVE  BookedOnceInv'
<1>1. /\ \A e \in Decisions \ {d} : book'[e] = book[e]
      /\ \A lot \in Lot : book'[d][lot] =
            IF lot \in lots THEN book[d][lot] + 1 ELSE book[d][lot]
  BY BookStep
<1> SUFFICES ASSUME NEW e \in Decisions, NEW lot \in Lot, <<e, lot>> \notin stranded'
             PROVE  /\ book'[e][lot] # 0 =>
                          /\ book'[e][lot] = 1 /\ lot \in ledger'[e].fills
                          /\ lot \in file[e].fills \/ Ahead(e)'
                    /\ bookFile.book[e][lot] # 0 =>
                          bookFile.book[e][lot] = 1 /\ lot \in file[e].fills
  BY DEF BookedOnceInv, BookedOnce
<1>2. /\ book[e][lot] # 0 =>
            /\ book[e][lot] = 1 /\ lot \in ledger[e].fills
            /\ lot \in file[e].fills \/ Ahead(e)
      /\ bookFile.book[e][lot] # 0 => bookFile.book[e][lot] = 1 /\ lot \in file[e].fills
  BY DEF BookedOnceInv, BookedOnce
<1>3. CASE e = d
  <2>1. CASE lot \in lots
    <3>1. book[e][lot] = 0
      BY <1>2, <1>3, <2>1
    <3>2. book'[e][lot] = 1 /\ lot \in ledger'[e].fills
      BY <1>1, <1>3, <2>1, <3>1
    <3> QED
      BY <1>2, <1>3, <3>2
  <2>2. CASE lot \notin lots
    BY <1>1, <1>2, <1>3, <2>2
  <2> QED
    BY <2>1, <2>2
<1>4. CASE e # d
  BY <1>1, <1>2, <1>4
<1> QED
  BY <1>3, <1>4

(* The checkpoint is taken when the ledger is saved. *)
LEMMA BookedCheckpoint ==
    ASSUME BookedOnceInv, Checkpoint \/ SaveBook, stranded \subseteq stranded'
    PROVE  BookedOnceInv'
<1>1. /\ task \in {"checkpoint", "saveBook"} /\ bookFile'.book = book
      /\ UNCHANGED <<ledger, file, book>>
  BY DEF Checkpoint, SaveBook, vars
<1>2. \A d : ~ Ahead(d)
  BY <1>1 DEF Ahead, Unsaved
<1> QED
  BY <1>1, <1>2 DEF BookedOnceInv, BookedOnce

LEMMA BookedRestart ==
    ASSUME BookedOnceInv, Restart, stranded \subseteq stranded'
    PROVE  BookedOnceInv'
<1>1. /\ ledger' = file /\ file' = file /\ book' = bookFile.book /\ bookFile' = bookFile
  BY DEF Restart, Crash
<1> QED
  BY <1>1 DEF BookedOnceInv, BookedOnce

LEMMA BookedStep ==
    ASSUME PlaneInv, MemoryAhead, BookedOnceInv, [PlaneNext]_allVars
    PROVE  BookedOnceInv'
<1> stranded \subseteq stranded'
  BY HistoryStep
<1>1. ASSUME ~ Restart, UNCHANGED <<book, bookFile>>,
             \A d \in Decisions :
                Ahead(d) => Ahead(d)' \/ ledger[d].fills \subseteq file'[d].fills
                            \/ Strands
      PROVE  BookedOnceInv'
  <2>1. \A d \in Decisions : /\ ledger[d].fills \subseteq ledger'[d].fills
                             /\ file[d].fills \subseteq file'[d].fills
    BY <1>1, RowsGrow DEF MemoryAhead
  <2> QED
    BY <1>1, <2>1, BookedKept
<1>2. ASSUME \/ \E d \in Decisions : CycleWithoutSubmission(d) \/ CycleRefused(d)
             \/ QuietCycle \/ FillWithheld \/ FillRefused \/ CycleRaises
             \/ FetchOrders \/ FetchTrades \/ FetchFails
             \/ \E t \in pending : SkipTrade(t) \/ TradeRaises(t)
             \/ PassSaveRaises \/ PassCompletes \/ NavDrifts
             \/ VenueStep
      PROVE  BookedOnceInv'
  <2>1. UNCHANGED <<ledger, file, book, bookFile>>
    BY <1>2, QuietEffect
  <2>2. \/ task \notin {"apply", "saveLedger", "saveFill"}
        \/ UNCHANGED <<task, subject>>
        \/ Strands
    <3>1. CASE \E d \in Decisions : CycleWithoutSubmission(d) \/ CycleRefused(d)
      BY <3>1 DEF CycleWithoutSubmission, CycleRefused
    <3>2. CASE \/ QuietCycle \/ FillWithheld \/ FillRefused
               \/ FetchOrders \/ FetchTrades \/ FetchFails
               \/ PassCompletes \/ NavDrifts
      BY <3>2 DEF QuietCycle, FillWithheld, FillRefused, FetchOrders,
                  FetchTrades, FetchFails, PassCompletes, NavDrifts
    <3>3. CASE \E t \in pending : SkipTrade(t)
      BY <3>3 DEF SkipTrade, cycleVars
    <3>4. CASE CycleRaises \/ PassSaveRaises \/ \E t \in pending : TradeRaises(t)
      BY <3>4 DEF CycleRaises, PassSaveRaises, TradeRaises, PassAborts
    <3>5. CASE VenueStep
      BY <3>5 DEF VenueStep, VenueFill, VenueClose, planeVars, cycleVars
    <3> QED
      BY <1>2, <3>1, <3>2, <3>3, <3>4, <3>5
  <2>3. \A d \in Decisions : Ahead(d) => Ahead(d)' \/ Strands
    BY <2>2 DEF Ahead, Unsaved
  <2> QED
    BY <2>1, <2>3, BookedKept
<1>4. ASSUME NEW d \in Decisions, CycleSubmits(d) PROVE BookedOnceInv'
  <2>1. ~ Restart
    BY <1>4 DEF CycleSubmits, Restart, Boot
  <2>2. UNCHANGED <<book, bookFile>> /\ task = "idle"
    BY <1>4 DEF CycleSubmits, bookVars
  <2> QED
    BY <1>1, <2>1, <2>2 DEF Ahead, Unsaved
<1>5. CASE SubmitterStep
  <2>1. UNCHANGED <<book, bookFile>> /\ task = "submitting" /\ restarts' = restarts
    BY <1>5 DEF SubmitterStep, bookVars, runVars
  <2>2. ~ Restart
    BY <2>1 DEF Restart, PlaneInv, PlaneTypes
  <2> QED
    BY <1>1, <2>1, <2>2 DEF Ahead, Unsaved
<1>6. CASE SaveFill \/ SaveLedger \/ ApplyStatuses
  <2>1. /\ UNCHANGED <<book, bookFile>> /\ restarts' = restarts
        /\ (task = "apply" /\ task' = "saveLedger") \/ file' = ledger
    BY <1>6 DEF SaveFill, SaveLedger, ApplyStatuses, bookVars, runVars
  <2>2. ~ Restart
    BY <2>1 DEF Restart, PlaneInv, PlaneTypes
  <2> QED
    BY <1>1, <2>1, <2>2 DEF Ahead, Unsaved
<1>7. CASE FillApplied
  <2>1. /\ task = "fill" /\ task' = "saveFill"
        /\ UNCHANGED <<file, subject, bookFile>>
    BY <1>7 DEF FillApplied
  <2>2. /\ subject \in Decisions /\ ledger[subject].fills = {}
        /\ \A e \in Decisions \ {subject} : ledger'[e] = ledger[e]
    BY <1>7, FillEffect
  <2>3. /\ \A e : ~ Ahead(e)
        /\ Ahead(subject)'
    BY <2>1 DEF Ahead, Unsaved
  <2>4. CASE UNCHANGED <<book, position>> /\ ledger'[subject].fills = {}
    <3>1. \A e \in Decisions : ledger[e].fills \subseteq ledger'[e].fills
      BY <2>2, <2>4
    <3> QED
      BY <2>1, <2>3, <2>4, <3>1, BookedKept
  <2>5. CASE ~ (UNCHANGED <<book, position>> /\ ledger'[subject].fills = {})
    <3>1. PICK lots \in SUBSET (Lot \ VenueLot) :
             /\ Cardinality(lots) \in Nat
             /\ ApplyFillAccepts(subject, lots) /\ ApplyFill(subject, lots)
             /\ ledger'[subject].fills = lots
      BY <1>7, <2>5, FillEffect
    <3>2. PICK d \in Decisions : d = subject
      BY <2>2
    <3>3. book \in Book /\ position \in Nat
      BY DEF PlaneInv, PlaneTypes
    <3>4. /\ ApplyFillAccepts(d, lots) /\ ApplyFill(d, lots)
          /\ \A lot \in lots : lot \notin ledger[d].fills
          /\ ledger'[d].fills = ledger[d].fills \cup lots
          /\ \A e \in Decisions \ {d} : ledger'[e] = ledger[e]
      BY <2>2, <3>1, <3>2
    <3>5. /\ Ahead(d)'
          /\ \A e \in Decisions \ {d} : Ahead(e) => Ahead(e)'
      BY <2>1, <2>3, <3>2 DEF Ahead, Unsaved
    <3> QED
      BY <2>1, <3>1, <3>3, <3>4, <3>5, BookedApplied
  <2> QED
    BY <2>4, <2>5
<1>8. ASSUME NEW t \in pending, ApplyTrade(t) PROVE BookedOnceInv'
  <2>1. /\ t.d \in Decisions /\ t.lot \notin ledger[t.d].fills
        /\ \A e \in Decisions \ {t.d} : ledger'[e] = ledger[e]
        /\ ledger'[t.d].fills = ledger[t.d].fills \cup {t.lot}
        /\ Cardinality({t.lot}) = 1
    BY <1>8, TradeEffect
  <2>2. task = "apply" /\ UNCHANGED <<file, bookFile>>
    BY <1>8 DEF ApplyTrade
  <2>3. CASE ApplyFillAccepts(t.d, {t.lot})
    <3>1. ApplyFill(t.d, {t.lot}) /\ task' = "apply"
      BY <1>8, <2>2, <2>3 DEF ApplyTrade
    <3>2. \A e : Ahead(e)'
      BY <3>1 DEF Ahead
    <3>3. book \in Book /\ position \in Nat
      BY DEF PlaneInv, PlaneTypes
    <3> QED
      BY <2>1, <2>2, <2>3, <3>1, <3>2, <3>3, BookedApplied
  <2>4. CASE ~ ApplyFillAccepts(t.d, {t.lot})
    <3>1. Strands /\ UNCHANGED book
      BY <1>8, <2>4 DEF ApplyTrade, PassAborts
    <3>2. \A e \in Decisions : ledger[e].fills \subseteq ledger'[e].fills
      BY <2>1
    <3> QED
      BY <2>2, <3>1, <3>2, BookedKept
  <2> QED
    BY <2>3, <2>4
<1>9. CASE UNCHANGED allVars
  <2>1. UNCHANGED <<ledger, file, book, bookFile, task, subject>>
    BY <1>9 DEF allVars, planeVars, vars
  <2> QED
    BY <2>1, BookedKept DEF Ahead, Unsaved
<1> QED
  BY <1>2, <1>4, <1>5, <1>6, <1>7, <1>8, <1>9, BookedCheckpoint, BookedRestart
     DEF PlaneNext, CycleStep, PassStep

(***************************************************************************)
(* NeverBookedTwice for every service: however often the process dies,     *)
(* however late a request arrives, whatever saves fail, orphans turn up    *)
(* and sells are refused, a lot is booked twice only if a pass or a cycle  *)
(* raised between booking it and saving the ledger, so that the checkpoint *)
(* of a later cycle outlives the record of it (reconcile_now,              *)
(* on_portfolio).                                                          *)
(***************************************************************************)
THEOREM NeverTwiceAcrossRestarts == PlaneSpec => []NeverBookedTwice
<1>1. PlaneInit => MemoryAhead /\ BookedOnceInv
  BY DEF PlaneInit, Init, MemoryAhead, BookedOnceInv, BookedOnce, EmptyBook
<1>2. PlaneInv /\ MemoryAhead /\ BookedOnceInv /\ [PlaneNext]_allVars
      => (MemoryAhead /\ BookedOnceInv)'
  BY MemoryStep, BookedStep
<1>3. BookedOnceInv => NeverBookedTwice
  <2> SUFFICES ASSUME BookedOnceInv, NEW d \in Decisions, NEW lot \in Lot,
                      book[d][lot] > 1, <<d, lot>> \notin stranded
               PROVE  FALSE
    BY DEF NeverBookedTwice
  <2>1. book[d][lot] = 0 \/ book[d][lot] = 1
    BY DEF BookedOnceInv, BookedOnce
  <2> QED
    BY <2>1
<1> QED
  BY <1>1, <1>2, <1>3, PlaneInvariance, PTL DEF PlaneSpec
=============================================================================
