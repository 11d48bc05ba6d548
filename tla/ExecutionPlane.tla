--------------------------- MODULE ExecutionPlane ---------------------------
(***************************************************************************)
(* The execution plane of ContinuousPaperService (service.py): symbol      *)
(* cycles that submit an order and book a local paper fill, the venue      *)
(* reconciliation pass of HummingbotExecutionReconciler, and the two files *)
(* a restart resumes from, the execution ledger and the portfolio          *)
(* checkpoint.                                                             *)
(*                                                                         *)
(* One task runs at a time (`task'): the service awaits each cycle and     *)
(* each pass.  Each fetch and each save is a step of its own, so that the  *)
(* venue moves, and the process dies, between any two of them.  Submission *)
(* supplies the submitter and the venue's acceptance of orders; here the   *)
(* decision of every cycle is new (uuid4), as in the service loop.         *)
(*                                                                         *)
(* Abstractions.  One asset.  A venue trade fills one lot; a lot is        *)
(* numbered within its order, the lots of a local paper fill after those   *)
(* of the venue.  The portfolio book is the number of times it applied     *)
(* each lot.  Cash, prices, marks and NAV are left out: the NAV comparison *)
(* may come out either way.                                                *)
(***************************************************************************)
EXTENDS Submission, Integers

CONSTANTS
    Sells,             \* the decisions whose side is SELL
    Submits,           \* the service runs with --submit
    PaperSettings,     \* whether a paper_fill_simulator may be wired
    VenueReportsFees,  \* venue trade rows carry a fee
    SavesFail,         \* a save, or the audit write of a cycle, may raise
    MaxRestarts        \* bound on crashes

ASSUME PlaneAssumption ==
    /\ ReduceOnly \subseteq Sells /\ Sells \subseteq Decisions
    /\ {Submits, VenueReportsFees, SavesFail} \subseteq BOOLEAN
    /\ PaperSettings \subseteq BOOLEAN
    /\ MaxRestarts \in Nat

VARIABLES
    task,      \* where the service loop stands
    subject,   \* the decision of the current cycle
    book,      \* the portfolio book: how often it applied each lot
    position,  \* Position.quantity of the asset, in lots
    bookFile,  \* the portfolio checkpoint: both
    blocked,   \* health.reconciliation_blocked
    rows,      \* the order rows the current pass fetched, with their status
    pending,   \* the trade rows the current pass fetched and has not handled
    applied,   \* the current pass applied a fill
    conflict,  \* the current pass found an order conflict
    trades,    \* the venue's trades
    closed,    \* the orders the venue closed before they were filled
    restarts,  \* crashes so far
    paper,     \* paper_fill_simulator is wired (then the NAV check is not)
    \* history
    refused,   \* the lots the ledger recorded and apply_fill then refused
    stranded   \* the lots a pass or cycle that raised left out of the file

cycleVars == <<task, subject>>
passVars == <<rows, pending, applied, conflict>>
bookVars == <<book, position, bookFile>>
marketVars == <<trades, closed>>
runVars == <<restarts, paper, refused, stranded>>
planeVars == <<task, subject, book, position, bookFile, blocked, rows, pending,
               applied, conflict, trades, closed, restarts, paper, refused, stranded>>
allVars == <<vars, planeVars>>

VenueLot == 1 .. MaxQuantity
PaperLots(quantity) == (MaxQuantity + 1) .. (MaxQuantity + quantity)
Lot == VenueLot \cup PaperLots(MaxQuantity)

EmptyBook == [d \in Decisions |-> [lot \in Lot |-> 0]]

(* _run_cycles reconciles before its first cycle, if anything is wired. *)
Boot == IF Submits THEN "boot" ELSE "idle"

PlaneInit ==
    /\ Init
    /\ task = Boot
    /\ subject = None
    /\ book = EmptyBook /\ position = 0
    /\ bookFile = [book |-> EmptyBook, position |-> 0]
    /\ blocked = FALSE
    /\ rows = {} /\ pending = {} /\ applied = FALSE /\ conflict = FALSE
    /\ trades = {} /\ closed = {}
    /\ restarts = 0
    /\ paper \in PaperSettings
    /\ refused = {} /\ stranded = {}

-----------------------------------------------------------------------------
(***************************************************************************)
(* The portfolio book.  apply_fill refuses to sell more than is held.      *)
(***************************************************************************)
ApplyFillAccepts(d, lots) == d \in Sells => Cardinality(lots) <= position

ApplyFill(d, lots) ==
    /\ book' = [book EXCEPT ![d] =
                   [lot \in Lot |-> IF lot \in lots THEN @[lot] + 1 ELSE @[lot]]]
    /\ position' = IF d \in Sells THEN position - Cardinality(lots)
                                  ELSE position + Cardinality(lots)

(* fee_source is MODELLED: no fill of the row carried a fee of the venue. *)
FeesModelled(row) ==
    row.fills # {} /\ (VenueReportsFees => row.fills \cap VenueLot = {})

(* is_local_paper_fill *)
IsLocalPaperFill(row) == row.state = "FILLED" /\ FeesModelled(row)

(* What the book holds and the ledger file does not know. *)
UnsavedLots ==
    {x \in Decisions \X Lot : book[x[1]][x[2]] # 0 /\ x[2] \notin file[x[1]].fills}

(* An exception ends a cycle or a pass: what it booked stays in memory. *)
Strands == stranded' = stranded \cup UnsavedLots

-----------------------------------------------------------------------------
(***************************************************************************)
(* A symbol cycle (_run_symbol_safely).                                    *)
(***************************************************************************)
SubmissionEnabled == Submits /\ ~ blocked

PaperFillEnabled == paper /\ ~ blocked

(* The submitter is called, or not when submission is withheld. *)
CycleSubmits(d) ==
    /\ task = "idle"
    /\ SubmissionEnabled
    /\ SubmitFresh(d, position)
    /\ task' = "submitting"
    /\ subject' = d
    /\ UNCHANGED <<bookVars, blocked, passVars, marketVars, runVars>>

CycleRefused(d) ==
    /\ task = "idle"
    /\ SubmissionEnabled
    /\ SubmitFreshRefused(d)
    /\ task' = "fill"
    /\ subject' = d
    /\ UNCHANGED <<bookVars, blocked, passVars, marketVars, runVars>>

CycleWithoutSubmission(d) ==
    /\ task = "idle"
    /\ ~ SubmissionEnabled
    /\ ledger[d] = NoOrder
    /\ task' = "fill"
    /\ subject' = d
    /\ UNCHANGED <<vars, bookVars, blocked, passVars, marketVars, runVars>>

(* No order intent: the cycle only marks, audits and checkpoints. *)
QuietCycle ==
    /\ task = "idle"
    /\ task' = "checkpoint"
    /\ UNCHANGED <<vars, subject, bookVars, blocked, passVars, marketVars, runVars>>

(* The submitter runs; an exception ends the cycle, a status continues it. *)
SubmitterStep ==
    /\ task = "submitting"
    /\ \/ GateUnanswered \/ GateAdopt \/ GateExhausted \/ GateRetry
       \/ CallStep
       \/ SaveStep /\ (result' = "raised" => SavesFail)
    /\ task' = IF pc' # "idle" THEN "submitting"
               ELSE IF result' = "raised" THEN "idle" ELSE "fill"
    /\ subject' = IF task' = "idle" THEN None ELSE subject
    /\ UNCHANGED <<bookVars, blocked, passVars, marketVars, runVars>>

-----------------------------------------------------------------------------
(***************************************************************************)
(* _maybe_apply_paper_fill and PaperFillSimulator.apply, on the decision   *)
(* of the cycle, then the save of the ledger.                              *)
(***************************************************************************)
Row == ledger[subject]

(* Not wired, kill switch engaged, or reconciliation blocked. *)
FillWithheld ==
    /\ task = "fill"
    /\ task' = "checkpoint"
    /\ UNCHANGED <<vars, subject, bookVars, blocked, passVars, marketVars, runVars>>

(* The planner refuses, or the order is already terminal. *)
FillRefused ==
    /\ task = "fill"
    /\ PaperFillEnabled
    /\ task' = "saveFill"
    /\ UNCHANGED <<vars, subject, bookVars, blocked, passVars, marketVars, runVars>>

(* Mutation: an order already planned is filled at the new plan's size. *)
FillQuantityReplanned(planned) ==
    IF Row = NoOrder \/ planned < Row.qty THEN planned ELSE Row.qty

(* The quantity to fill: that of an order already planned, for a protective *)
(* exit clamped to the new plan; that of the new plan otherwise.            *)
FillQuantity(planned) ==
    IF Row # NoOrder /\ (subject \notin ReduceOnly \/ Row.qty < planned)
    THEN Row.qty ELSE planned

FillApplied ==
    /\ task = "fill"
    /\ PaperFillEnabled
    /\ Row.state \notin TerminalStates
    /\ \E quantity \in Quantities :
          LET cap     == ReduceOnlyCap(subject, position, 0)
              planned == PlannedQuantity(quantity, cap)
              order   == IF Row = NoOrder THEN PlannedOrder(planned) ELSE Row
              lots    == PaperLots(FillQuantity(planned))
          IN /\ cap # 0
             /\ \/ /\ ApplyFillAccepts(subject, lots)
                   /\ ledger' = [ledger EXCEPT ![subject] = WithFill(order, lots)]
                   /\ ApplyFill(subject, lots)
                \/ \* _short_sale_reason: the new row stays PLANNED
                   /\ ~ ApplyFillAccepts(subject, lots)
                   /\ ledger' = [ledger EXCEPT ![subject] = order]
                   /\ UNCHANGED <<book, position>>
    /\ task' = "saveFill"
    /\ UNCHANGED <<file, submitterVars, wire, venue, subject, bookFile, blocked,
                   passVars, marketVars, runVars>>

SaveFill ==
    /\ task = "saveFill"
    /\ file' = ledger
    /\ task' = "checkpoint"
    /\ UNCHANGED <<ledger, submitterVars, wire, venue, subject, bookVars, blocked,
                   passVars, marketVars, runVars>>

(* on_portfolio, at the end of every cycle that did not raise. *)
Checkpoint ==
    /\ task = "checkpoint"
    /\ bookFile' = [book |-> book, position |-> position]
    /\ task' = "idle"
    /\ subject' = None
    /\ UNCHANGED <<vars, book, position, blocked, passVars, marketVars, runVars>>

(* A save or the audit write raises: record_error, next cycle. *)
CycleRaises ==
    /\ SavesFail
    /\ task \in {"saveFill", "checkpoint"}
    /\ task' = "idle"
    /\ subject' = None
    /\ Strands
    /\ UNCHANGED <<vars, bookVars, blocked, passVars, marketVars, restarts, paper, refused>>

-----------------------------------------------------------------------------
(***************************************************************************)
(* A reconciliation pass (reconcile_now, reconcile_state).                 *)
(***************************************************************************)
TradesOf(o) == {t \in trades : t.d = o.d /\ t.k = o.k}

(* The status a venue row may carry: a live order's row may lag. *)
VenueStatus(o) ==
    IF o \in closed THEN {"CANCELLED"}
    ELSE IF Cardinality(TradesOf(o)) = o.qty THEN {"FILLED"}
    ELSE {"OPEN"} \cup (IF TradesOf(o) = {} THEN {} ELSE {"PARTIALLY_FILLED"})

PassEnds(outcome) ==
    /\ task' = "idle"
    /\ blocked' = outcome
    /\ rows' = {} /\ pending' = {} /\ applied' = FALSE /\ conflict' = FALSE

PassAborts == PassEnds(TRUE) /\ Strands

(* _fetch_state asks for the orders first ... *)
FetchOrders ==
    /\ Submits
    /\ task \in {"boot", "idle"}
    /\ \E status \in [venue -> OrderState] :
          /\ \A o \in venue : status[o] \in VenueStatus(o)
          /\ rows' = {[order |-> o, status |-> status[o]] : o \in venue}
    /\ task' = "fetchTrades"
    /\ UNCHANGED <<vars, subject, bookVars, blocked, pending, applied, conflict,
                   marketVars, runVars>>

(* Mutation: only the trades of orders that are still live are asked for. *)
FetchTradesOfLive ==
    /\ task = "fetchTrades"
    /\ pending' = {t \in trades : \E row \in rows :
                      row.order.d = t.d /\ row.status \notin TerminalStates}
    /\ task' = "apply"
    /\ UNCHANGED <<vars, subject, bookVars, blocked, rows, applied, conflict,
                   marketVars, runVars>>

(* ... then for the trades. *)
FetchTrades ==
    /\ task = "fetchTrades"
    /\ pending' = trades
    /\ task' = "apply"
    /\ UNCHANGED <<vars, subject, bookVars, blocked, rows, applied, conflict,
                   marketVars, runVars>>

(* Transport error, 5xx or an unreadable body of either answer. *)
FetchFails ==
    /\ Submits
    /\ task \in {"boot", "idle", "fetchTrades"}
    /\ PassEnds(TRUE)
    /\ UNCHANGED <<vars, subject, bookVars, marketVars, runVars>>

(* A trade of a local paper fill, or one already processed, is skipped. *)
TradeSkipped(t) ==
    \/ IsLocalPaperFill(ledger[t.d])
    \/ t.lot \in ledger[t.d].fills

SkipTrade(t) ==
    /\ task = "apply"
    /\ AccountedFor(t) /\ TradeSkipped(t)
    /\ pending' = pending \ {t}
    /\ UNCHANGED <<vars, cycleVars, bookVars, blocked, rows, applied, conflict,
                   marketVars, runVars>>

(* record_fill, then apply_fill. *)
ApplyTrade(t) ==
    /\ task = "apply"
    /\ AccountedFor(t) /\ ~ TradeSkipped(t)
    /\ FillAccepted(ledger[t.d], {t.lot})
    /\ ledger' = [ledger EXCEPT ![t.d] = WithFill(@, {t.lot})]
    /\ \/ /\ ApplyFillAccepts(t.d, {t.lot})
          /\ ApplyFill(t.d, {t.lot})
          /\ pending' = pending \ {t}
          /\ applied' = TRUE
          /\ UNCHANGED <<task, blocked, rows, conflict, refused, stranded>>
       \/ \* apply_fill raises after the ledger recorded the fill
          /\ ~ ApplyFillAccepts(t.d, {t.lot})
          /\ refused' = refused \cup {<<t.d, t.lot>>}
          /\ PassAborts
          /\ UNCHANGED <<book, position>>
    /\ UNCHANGED <<file, submitterVars, wire, venue, subject, bookFile,
                   marketVars, restarts, paper>>

(* An orphan, an overfill or an illegal transition raises: what the pass   *)
(* applied so far stays in memory, and nothing is saved.                   *)
TradeRaises(t) ==
    /\ task = "apply"
    /\ \/ ~ AccountedFor(t)
       \/ ~ TradeSkipped(t) /\ ~ FillAccepted(ledger[t.d], {t.lot})
    /\ PassAborts
    /\ UNCHANGED <<vars, subject, bookVars, marketVars, restarts, paper, refused>>

(* Mutation: the orders are fetched after the trades. *)
KnownRowsFetchedLast ==
    {row \in [order : venue, status : OrderState] :
        /\ row.status \in VenueStatus(row.order)
        /\ AccountedFor(row.order) /\ ~ IsLocalPaperFill(ledger[row.order.d])}

(* _reconcile_orders: the rows the ledger knows, local paper fills apart. *)
KnownRows ==
    {row \in rows :
        AccountedFor(row.order) /\ ~ IsLocalPaperFill(ledger[row.order.d])}

(* Mutation: a status of the venue is not asked of the transition table. *)
LegalUnchecked(row) == row.status \in OrderState

Legal(row) == IsLegalTransition(ledger[row.order.d].state, row.status)

ApplyStatuses ==
    /\ task = "apply"
    /\ pending = {}
    /\ ledger' = [d \in Decisions |->
          IF \E row \in KnownRows : row.order.d = d /\ Legal(row)
          THEN [ledger[d] EXCEPT !.state =
                  (CHOOSE row \in KnownRows : row.order.d = d /\ Legal(row)).status]
          ELSE ledger[d]]
    /\ conflict' = \E row \in KnownRows :
                      ~ Legal(row) /\ ledger[row.order.d].state \in TerminalStates
    /\ rows' = {}
    /\ task' = "saveLedger"
    /\ UNCHANGED <<file, submitterVars, wire, venue, subject, bookVars, blocked,
                   pending, applied, marketVars, runVars>>

(* Mutation: the pass does not save the ledger. *)
SaveLedgerSkipped ==
    /\ task = "saveLedger"
    /\ task' = IF applied THEN "saveBook" ELSE "nav"
    /\ UNCHANGED <<vars, subject, bookVars, blocked, passVars, marketVars, runVars>>

SaveLedger ==
    /\ task = "saveLedger"
    /\ file' = ledger
    /\ task' = IF applied THEN "saveBook" ELSE "nav"
    /\ UNCHANGED <<ledger, submitterVars, wire, venue, subject, bookVars, blocked,
                   passVars, marketVars, runVars>>

(* The checkpoint is written only by a pass that applied a fill. *)
SaveBook ==
    /\ task = "saveBook"
    /\ bookFile' = [book |-> book, position |-> position]
    /\ task' = "nav"
    /\ UNCHANGED <<vars, subject, book, position, blocked, passVars, marketVars, runVars>>

PassSaveRaises ==
    /\ SavesFail
    /\ task \in {"saveLedger", "saveBook"}
    /\ PassAborts
    /\ UNCHANGED <<vars, subject, bookVars, marketVars, restarts, paper, refused>>

(* Mutation: a clean pass does not clear the block. *)
PassCompletesSticky ==
    /\ task = "nav"
    /\ PassEnds(blocked \/ conflict)
    /\ UNCHANGED <<vars, subject, bookVars, marketVars, runVars>>

(* The pass ends clean, or with the conflicts it collected. *)
PassCompletes ==
    /\ task = "nav"
    /\ PassEnds(conflict)
    /\ UNCHANGED <<vars, subject, bookVars, marketVars, runVars>>

(* The NAV comparison fails or reports a drift. *)
NavDrifts ==
    /\ task = "nav"
    /\ ~ paper
    /\ PassEnds(TRUE)
    /\ UNCHANGED <<vars, subject, bookVars, marketVars, runVars>>

-----------------------------------------------------------------------------
(***************************************************************************)
(* The venue (external) and crashes.                                       *)
(***************************************************************************)
VenueFill(o) ==
    /\ o \notin closed
    /\ Cardinality(TradesOf(o)) < o.qty
    /\ trades' = trades \cup
          {[d |-> o.d, k |-> o.k, lot |-> Cardinality(TradesOf(o)) + 1]}
    /\ UNCHANGED <<vars, cycleVars, bookVars, blocked, passVars, closed, runVars>>

VenueClose(o) ==
    /\ o \notin closed
    /\ Cardinality(TradesOf(o)) < o.qty
    /\ closed' = closed \cup {o}
    /\ UNCHANGED <<vars, cycleVars, bookVars, blocked, passVars, trades, runVars>>

(* The process dies; the next one loads both files and reconciles first. *)
Restart ==
    /\ restarts < MaxRestarts
    /\ Crash
    /\ restarts' = restarts + 1
    /\ task' = Boot
    /\ subject' = None
    /\ book' = bookFile.book /\ position' = bookFile.position
    /\ blocked' = FALSE
    /\ rows' = {} /\ pending' = {} /\ applied' = FALSE /\ conflict' = FALSE
    /\ UNCHANGED <<bookFile, marketVars, paper, refused, stranded>>

-----------------------------------------------------------------------------
CycleStep ==
    \/ \E d \in Decisions :
          CycleSubmits(d) \/ CycleRefused(d) \/ CycleWithoutSubmission(d)
    \/ QuietCycle \/ SubmitterStep
    \/ FillWithheld \/ FillRefused \/ FillApplied \/ SaveFill
    \/ Checkpoint \/ CycleRaises

PassStep ==
    \/ FetchOrders \/ FetchTrades \/ FetchFails
    \/ \E t \in pending : SkipTrade(t) \/ ApplyTrade(t) \/ TradeRaises(t)
    \/ ApplyStatuses \/ SaveLedger \/ SaveBook \/ PassSaveRaises
    \/ PassCompletes \/ NavDrifts

VenueStep ==
    \/ NetworkStep /\ UNCHANGED planeVars
    \/ \E o \in venue : VenueFill(o) \/ VenueClose(o)

PlaneNext == CycleStep \/ PassStep \/ VenueStep \/ Restart

PlaneSpec == PlaneInit /\ [][PlaneNext]_allVars

(***************************************************************************)
(* The service loop keeps running and starts a pass every                  *)
(* reconcile_interval_seconds, however many cycles run in between; the     *)
(* venue answers some of the passes, the NAV comparison some of the times, *)
(* and not every save of a pass fails.  Nothing obliges a cycle to produce *)
(* an order, a save to fail or the process to crash.                       *)
(***************************************************************************)
PassProgress ==
    \/ FetchTrades
    \/ \E t \in pending : SkipTrade(t) \/ ApplyTrade(t) \/ TradeRaises(t)
    \/ ApplyStatuses

CycleProgress ==
    \/ SubmitterStep
    \/ FillWithheld \/ FillRefused \/ FillApplied \/ SaveFill
    \/ Checkpoint

FairPlaneSpec ==
    /\ PlaneSpec
    /\ WF_allVars(CycleProgress)
    /\ SF_allVars(FetchOrders)
    /\ SF_allVars(PassProgress)
    /\ SF_allVars(SaveLedger) /\ SF_allVars(SaveBook)
    /\ SF_allVars(PassCompletes)
    /\ WF_allVars(NetworkStep /\ UNCHANGED planeVars)

-----------------------------------------------------------------------------
(***************************************************************************)
(* Properties.                                                             *)
(***************************************************************************)

(* Within one process the book holds exactly the lots the ledger recorded, *)
(* each once, whichever saves raise and wherever a pass aborts; the only   *)
(* lots it lacks are sells it refused because they exceed what is held:    *)
(* the ledger recorded those before it asked the book (_reconcile_trades). *)
AppliedUnlessRefused ==
    restarts = 0 =>
        \A d \in Decisions, lot \in Lot :
            book[d][lot] =
                IF lot \in ledger[d].fills /\ <<d, lot>> \notin refused THEN 1 ELSE 0

(* "A duplicate fill id ... is applied exactly once; processed_fill_ids is  *)
(* persisted with the ledger, so it survives a restart"                    *)
(* (SECURITY-REVIEW-2026-09.md:183-185).  It does not: a crash between the *)
(* two files of a pass loses fills.                                        *)
AppliedExactlyOnce ==
    \A d \in Decisions, lot \in Lot :
        book[d][lot] = IF lot \in ledger[d].fills THEN 1 ELSE 0

(* The venue trades no pass can book: their order has no venue order id in *)
(* the ledger.                                                             *)
Orphans == {t \in trades : ~ AccountedFor(t)}

(* "Exactly once" fails the other way too: a pass that aborts keeps in     *)
(* memory what it booked, the next cycle checkpoints it, and after a       *)
(* restart it is booked again.  That is the only way to book a lot twice:  *)
(* some pass or cycle raised between booking it and saving the ledger.     *)
(* Crashes alone, at any step of any pass, lose lots and never double one, *)
(* because a pass saves the ledger before the checkpoint (service.py).     *)
NeverBookedTwice ==
    \A d \in Decisions, lot \in Lot : book[d][lot] > 1 => <<d, lot>> \in stranded

(* Reconciliation closes an order only when all its trades are recorded:   *)
(* the orders are fetched before the trades, so a terminal status never    *)
(* overtakes a trade and no later trade finds its order closed.  A         *)
(* protective exit that was filled locally in part is closed when the two  *)
(* sources together reach its quantity, and is left out.                   *)
ClosedMeansRecorded ==
    \A d \in Decisions :
        (/\ ledger[d].state \in TerminalStates /\ ~ IsLocalPaperFill(ledger[d])
         /\ d \notin ReduceOnly \/ ~ paper)
            => \A t \in trades :
                  t.d = d /\ AccountedFor(t) => t.lot \in ledger[d].fills

(* An entry is booked from one source: once the paper fill of an order is  *)
(* booked, "venue trade rows for an already-FILLED modelled order are      *)
(* ignored so they cannot double-apply" (EXECUTION-ARCHITECTURE.md:532).   *)
BookedFromOneSource(d) ==
    \/ \A lot \in VenueLot : book[d][lot] = 0
    \/ \A lot \in Lot \ VenueLot : book[d][lot] = 0

EntriesBookedOnce == \A d \in Decisions \ ReduceOnly : BookedFromOneSource(d)

(* A block is cleared by a later pass (health.py:38), unless an orphan     *)
(* trade keeps every pass from completing.                                 *)
BlockClearsWithoutOrphans == blocked ~> ~ blocked \/ Orphans # {}

(* In a process that is not restarted every venue trade is eventually in   *)
(* the book, unless an orphan aborts the passes or the book refused the    *)
(* trade: a sell it refused once is recorded and skipped ever after.       *)
TradesReachBook ==
    \A d \in Decisions, lot \in VenueLot :
        (\E t \in trades : t.d = d /\ t.lot = lot)
            ~> \/ book[d][lot] # 0 \/ <<d, lot>> \in refused
               \/ Orphans # {} \/ restarts # 0
=============================================================================
