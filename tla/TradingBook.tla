---------------------------- MODULE TradingBook -----------------------------
(***************************************************************************)
(* The paper book and the decisions taken on it: InMemoryPortfolioBook     *)
(* (portfolio.py), the deterministic exits (exits.py), the order of gates  *)
(* of VerticalSlicePipeline.process (pipeline.py), RiskEngine.evaluate     *)
(* (risk.py), the sizing and booking of the paper fill                     *)
(* (execution/planner.py, execution/paper_fill.py) and the checkpoint at   *)
(* the end of a cycle.                                                     *)
(*                                                                         *)
(* A cycle is one step: between the snapshot it decides on and the fill    *)
(* nothing else touches the book.  The snapshot is taken before the tick   *)
(* arrives and the book is marked after the fill, so every limit is judged *)
(* at the marks of the cycles before.                                      *)
(*                                                                         *)
(* Abstractions.  Money, prices and quantities are integers (a quantity    *)
(* counts lot steps), and settings are percentages; an average cost is     *)
(* rounded down.  The gates before an entry are one choice, and so are the *)
(* conditions that block every order.  Realized profit, fees per position  *)
(* and the reasons of a decision are left out.  The strategy breaker the   *)
(* engine asks is the subject of StrategyBreaker; nothing in the service   *)
(* reports a trade to it, so that here it never objects.                   *)
(***************************************************************************)
EXTENDS Integers, FiniteSets, FiniteSetsExt

CONSTANTS
    Assets,        \* the allowlisted assets
    Prices,        \* the last trades a tick may report
    Skew,          \* the most a mid may differ from the last trade
    StartingNav,
    DemoPct,       \* demonstration_notional_pct
    PositionPct,   \* max_position_pct
    GrossPct,      \* max_gross_exposure_pct
    ReservePct,    \* min_cash_reserve_pct
    DailyLossPct,  \* max_daily_loss_pct
    DrawdownPct,   \* max_account_drawdown_pct
    MaxPositions,  \* max_open_positions
    StopPct, TrailPct, TakePct,   \* exit_*_pct; 0 disables a rule
    ThesisExits,   \* exit_on_thesis_invalidation
    SlipPct,       \* paper_slippage_bps
    FeePct,        \* paper_fee_bps
    MaxSlipPct,    \* execution_max_slippage_bps
    MinNotional,   \* execution_min_notional_usd
    MaxEntries,    \* bound on the entries of a behaviour
    MaxUnsaved,    \* bound on the cycles that end before the checkpoint
    MaxDate        \* bound on the UTC day

(* Every fill price is positive, in the code because prices are floats:    *)
(* the unit of money is fine enough that slippage rounds none to nothing.  *)
ASSUME BookAssumption ==
    /\ IsFiniteSet(Assets)
    /\ Prices \subseteq Nat \ {0} /\ Skew \in Nat
    /\ \A p \in Prices : Skew < p /\ 100 <= (p - Skew) * (100 - SlipPct)
    /\ StartingNav \in Nat \ {0}
    /\ {DemoPct, PositionPct, GrossPct, DailyLossPct, DrawdownPct} \subseteq 1 .. 100
    /\ {StopPct, TrailPct, TakePct, SlipPct, FeePct, ReservePct} \subseteq 0 .. 99
    /\ MaxSlipPct \in Nat
    /\ ThesisExits \in BOOLEAN
    /\ MaxPositions \in Nat \ {0} /\ MinNotional \in Nat \ {0}
    /\ MaxEntries \in Nat /\ MaxUnsaved \in Nat /\ MaxDate \in Nat

VARIABLES
    book,      \* the book in memory
    saved,     \* the book in the checkpoint
    date,      \* the UTC day
    running,   \* the process is up
    \* history
    entries,   \* entries booked
    unsaved,   \* cycles that ended before the checkpoint
    anchor     \* the NAV and day of the first checkpoint of the last UTC day
               \* on which one was written

bookVars == <<book, saved, date, running, entries, unsaved, anchor>>

Flat == [qty |-> 0, avg |-> 0, high |-> 0]
Undated == -1

NewBook ==
    [cash |-> StartingNav, peak |-> StartingNav,
     pos |-> [a \in Assets |-> Flat], marks |-> [a \in Assets |-> 0],
     dayNav |-> StartingNav, dayDate |-> Undated]

BookInit ==
    /\ book = NewBook /\ saved = NewBook
    /\ date = 0 /\ running = TRUE
    /\ entries = 0 /\ unsaved = 0
    /\ anchor = [day |-> Undated, nav |-> StartingNav]

-----------------------------------------------------------------------------
(***************************************************************************)
(* The book.                                                               *)
(***************************************************************************)
AtLeast(m, n) == IF m >= n THEN m ELSE n

AtMost(m, n) == IF m <= n THEN m ELSE n

(* A position without a mark is valued at its cost; a fill marks it. *)
Exposures(b) == [a \in Assets |-> b.pos[a].qty * b.marks[a]]

Gross(exposure) == MapThenSumSet(LAMBDA a : exposure[a], Assets)

Nav(b) == b.cash + Gross(Exposures(b))

(* snapshot, of a book whose day has been rolled. *)
Snapshot(b) ==
    LET exposure == Exposures(b)
        gross    == Gross(exposure)
    IN  [nav |-> b.cash + gross, cash |-> AtLeast(b.cash, 0), gross |-> gross,
         dailyPnl |-> b.cash + gross - b.dayNav, peak |-> b.peak, exposure |-> exposure]

Held(b) == {a \in Assets : b.pos[a].qty > 0}

(* mark: the high-water price follows, the peak of the NAV does not.  The  *)
(* mark of an asset that is not held has no effect: its next fill sets it. *)
Mark(b, a, price) ==
    IF b.pos[a].qty > 0
    THEN [b EXCEPT !.marks[a] = price, !.pos[a].high = AtLeast(@, price)]
    ELSE [b EXCEPT !.marks[a] = 0]

FeeOf(notional) == (notional * FeePct) \div 100

WithPeak(b) == [b EXCEPT !.peak = AtLeast(@, Nav(b))]

Bought(b, a, qty, price) ==
    LET old == b.pos[a]
        new == [qty |-> old.qty + qty,
                avg |-> (old.qty * old.avg + qty * price) \div (old.qty + qty),
                high |-> IF old.qty = 0 THEN price ELSE AtLeast(old.high, price)]
    IN  [b EXCEPT !.pos[a] = new, !.cash = @ - qty * price - FeeOf(qty * price)]

(* Mutant: a position that is closed keeps its cost and high-water price. *)
SoldKeepingTrace(b, a, qty, price) ==
    [b EXCEPT !.pos[a].qty = @ - qty, !.cash = @ + qty * price - FeeOf(qty * price)]

Sold(b, a, qty, price) ==
    LET old == b.pos[a]
        new == IF qty = old.qty THEN Flat ELSE [old EXCEPT !.qty = old.qty - qty]
    IN  [b EXCEPT !.pos[a] = new, !.cash = @ + qty * price - FeeOf(qty * price)]

ApplyFill(b, a, side, qty, price) ==
    WithPeak(Mark(IF side = "buy" THEN Bought(b, a, qty, price) ELSE Sold(b, a, qty, price),
                  a, price))

(* roll_day, called by every snapshot. *)
RollDay(b, today) ==
    IF b.dayDate = Undated THEN [b EXCEPT !.dayDate = today]
    ELSE IF b.dayDate = today THEN b
    ELSE [b EXCEPT !.dayDate = today, !.dayNav = Nav(b)]

-----------------------------------------------------------------------------
(***************************************************************************)
(* Exits.                                                                  *)
(***************************************************************************)
Below(price, pct) == (price * (100 - pct)) \div 100

StopLoss(p, last) == StopPct > 0 /\ last * 100 <= p.avg * (100 - StopPct)

TrailingStop(p, last) ==
    LET high == AtLeast(AtLeast(p.high, p.avg), last)
    IN  TrailPct > 0 /\ high > p.avg /\ last * 100 <= high * (100 - TrailPct)

TakeProfit(p, last) == TakePct > 0 /\ last * 100 >= p.avg * (100 + TakePct)

(* _first_fired_reason; the time stop is due when the cycle finds it so. *)
Fired(p, last, due) ==
    p.qty > 0 /\ (StopLoss(p, last) \/ TrailingStop(p, last) \/ TakeProfit(p, last) \/ due)

(* exit_sizing_price_usd: the lowest price the fill can print. *)
ExitNotional(p, last) == p.qty * Below(last, SlipPct)

-----------------------------------------------------------------------------
(***************************************************************************)
(* RiskEngine.evaluate, on the snapshot.  An order is a record.            *)
(***************************************************************************)
NoOrder == [side |-> "none", notional |-> 0, reduceOnly |-> FALSE]

Order(side, notional, reduceOnly) ==
    IF notional > 0
    THEN [side |-> side, notional |-> notional, reduceOnly |-> reduceOnly]
    ELSE NoOrder

DailyLossReached(s) == s.dailyPnl * 100 <= - s.nav * DailyLossPct

DrawdownReached(s) == (s.peak - s.nav) * 100 >= s.peak * DrawdownPct

GrossRoom(s) == (s.nav * GrossPct) \div 100 - s.gross

CashRoom(s) == s.cash - (s.nav * ReservePct) \div 100

PositionRoom(s, a) == (s.nav * PositionPct) \div 100 - s.exposure[a]

OpenPositions(s) == {a \in Assets : s.exposure[a] > 0}

(* The reasons that block risk-adding proposals only. *)
AddingBlocked(s, a) ==
    \/ DailyLossReached(s) \/ DrawdownReached(s)
    \/ GrossRoom(s) <= 0 \/ CashRoom(s) <= 0 \/ PositionRoom(s, a) <= 0
    \/ a \notin OpenPositions(s) /\ Cardinality(OpenPositions(s)) >= MaxPositions

(* Mutant: the room of the whole book does not bound an entry. *)
ApprovedAlone(s, a, requested) == Min({requested, PositionRoom(s, a), CashRoom(s)})

(* The tightest constraint wins; volatility sizing only shrinks a request. *)
ApprovedAdding(s, a, requested) ==
    Min({requested, PositionRoom(s, a), GrossRoom(s), CashRoom(s)})

(* A SELL of a held asset is reducing and capped to its exposure. *)
Reducing(s, a, side) == side = "sell" /\ s.exposure[a] > 0

(* Mutant: the daily loss and the drawdown block reducing proposals too. *)
EvaluateFreezing(s, a, side, requested, reduceOnly) ==
    IF DailyLossReached(s) \/ DrawdownReached(s) THEN NoOrder
    ELSE IF Reducing(s, a, side)
    THEN Order(side, AtMost(requested, s.exposure[a]), reduceOnly)
    ELSE IF AddingBlocked(s, a) THEN NoOrder
    ELSE Order(side, ApprovedAdding(s, a, requested), reduceOnly)

Evaluate(s, a, side, requested, reduceOnly) ==
    IF Reducing(s, a, side)
    THEN Order(side, AtMost(requested, s.exposure[a]), reduceOnly)
    ELSE IF AddingBlocked(s, a) THEN NoOrder
    ELSE Order(side, ApprovedAdding(s, a, requested), reduceOnly)

(* process: price and time exits come before every gate of an entry.  With *)
(* thesis exits a confirmed SELL, or a downtrend after a momentum entry,   *)
(* closes the position; without them the SELL is one of the entry's size.  *)
IsExit(held, last, signal) ==
    /\ signal # "blocked"
    /\ \/ Fired(held, last, signal = "time_stop")
       \/ ThesisExits /\ signal \in {"sell", "downtrend"} /\ held.qty > 0

Decided(b, a, last, signal) ==
    LET s == Snapshot(b)
    IN  IF IsExit(b.pos[a], last, signal)
        THEN Evaluate(s, a, "sell", ExitNotional(b.pos[a], last), TRUE)
        ELSE IF signal \in {"buy", "sell"}
        THEN Evaluate(s, a, signal, (s.nav * DemoPct) \div 100, FALSE)
        ELSE NoOrder

-----------------------------------------------------------------------------
(***************************************************************************)
(* PaperFillSimulator.apply with the plan it makes.                        *)
(***************************************************************************)
FillPrice(side, mid) ==
    IF side = "buy" THEN (mid * (100 + SlipPct)) \div 100 ELSE Below(mid, SlipPct)

PlannedQty(b, a, order, price) ==
    LET qty == order.notional \div price
    IN  IF order.reduceOnly THEN AtMost(qty, b.pos[a].qty) ELSE qty

(* plan refuses dust, and a fill further from the mid than its limit; the  *)
(* fill is always paper_slippage_bps from it.                              *)
Plannable(qty, price) ==
    SlipPct <= MaxSlipPct /\ qty > 0 /\ qty * price >= MinNotional

PaperFill(b, a, order, mid) ==
    LET price == FillPrice(order.side, mid)
        qty   == PlannedQty(b, a, order, price)
    IN  IF /\ order # NoOrder
           /\ Plannable(qty, price)
           /\ order.side = "sell" => qty <= b.pos[a].qty
        THEN ApplyFill(b, a, order.side, qty, price)
        ELSE b

-----------------------------------------------------------------------------
(***************************************************************************)
(* A cycle: snapshot, decision, fill, mark, checkpoint.  The snapshot for  *)
(* the gauges at its end finds the book as the next cycle finds it, and is *)
(* left to that one.                                                       *)
(***************************************************************************)
Mids(last) == {last - Skew, last + Skew}

(* What the cycle finds: something that blocks every order, exits too (the *)
(* kill switch, a stale snapshot, a wide spread); a time stop; a downtrend *)
(* that invalidates the thesis; an entry gate that refuses; or the side    *)
(* the gates let pass.                                                     *)
Signals == {"blocked", "time_stop", "downtrend", "refused", "buy", "sell"}

(* A step before the checkpoint raises: the book in memory runs ahead. *)
EndsEarly(b) ==
    /\ unsaved < MaxUnsaved
    /\ book' = b /\ unsaved' = unsaved + 1
    /\ UNCHANGED <<saved, date, running, anchor>>

Checkpoint(b) ==
    /\ book' = b /\ saved' = b
    /\ anchor' = IF anchor.day = date THEN anchor ELSE [day |-> date, nav |-> b.dayNav]
    /\ UNCHANGED <<date, running, unsaved>>

Finish(b) == Checkpoint(b) \/ EndsEarly(b)

(* A snapshot of a NAV that is not positive raises, before the tick.       *)
SnapshotTaken == Nav(book) > 0

(* Rejected market data changes neither marks nor positions. *)
RejectedTick ==
    /\ running /\ SnapshotTaken
    /\ Finish(RollDay(book, date))
    /\ UNCHANGED entries

Cycle(a) ==
    /\ running /\ SnapshotTaken
    /\ \E last \in Prices, signal \in Signals :
       \E mid \in Mids(last) :
          LET s      == RollDay(book, date)
              order  == Decided(s, a, last, signal)
              filled == PaperFill(s, a, order, mid)
              bought == filled.pos[a].qty > s.pos[a].qty
          IN  /\ bought => entries < MaxEntries
              /\ entries' = IF bought THEN entries + 1 ELSE entries
              /\ \/ Finish(Mark(filled, a, last))
                 \/ EndsEarly(filled)     \* the ledger is not saved

Midnight ==
    /\ date < MaxDate
    /\ date' = date + 1
    /\ UNCHANGED <<book, saved, running, entries, unsaved, anchor>>

Crash ==
    /\ running
    /\ running' = FALSE
    /\ UNCHANGED <<book, saved, date, entries, unsaved, anchor>>

(* Mutant: the anchor of the day is not read back. *)
RestoredUnanchored == [saved EXCEPT !.dayNav = Nav(saved)]

(* load, from_state: the book of the checkpoint, its anchor included. *)
Restored == saved

Restart ==
    /\ ~ running
    /\ running' = TRUE
    /\ book' = Restored
    /\ UNCHANGED <<saved, date, entries, unsaved, anchor>>

BookNext == (\E a \in Assets : Cycle(a)) \/ RejectedTick \/ Midnight \/ Crash \/ Restart

BookSpec == BookInit /\ [][BookNext]_bookVars

-----------------------------------------------------------------------------
(* No sequence of entries and exits, at whatever marks they were sized,    *)
(* overdraws the cash of a book whose reserve is no smaller than the fee:  *)
(* the reserve pays what the sizing leaves out.  config.py does not ask    *)
(* for that; with a smaller reserve an entry may overdraw the cash, by its *)
(* fee, and no entry follows (CashRoom).  What is not held keeps no trace  *)
(* of an earlier position for the exits to act on (apply_fill).            *)
BookSolvent ==
    /\ ReservePct >= FeePct => book.cash >= 0
    /\ \A a \in Assets :
          IF a \in Held(book) THEN book.pos[a].high >= book.marks[a] ELSE book.pos[a] = Flat

(* A fill that adds to a position leaves it, the whole book and the cash   *)
(* within the limits at the marks the cycle began with, and happens on no  *)
(* book that is past its daily loss or its drawdown from the recorded      *)
(* peak (evaluate).                                                        *)
EntriesWithinLimits ==
    [][LET s     == Snapshot(RollDay(book, date))
           spent == book.cash - book'.cash     \* fee included
       IN  \A a \in Assets :
              (running' /\ running /\ book'.pos[a].qty > book.pos[a].qty) =>
                 /\ ~ DailyLossReached(s) /\ ~ DrawdownReached(s)
                 /\ spent * 100 <= (100 + FeePct) * PositionRoom(s, a)
                 /\ spent * 100 <= (100 + FeePct) * GrossRoom(s)
                 /\ spent * 100 <= (100 + FeePct) * CashRoom(s)
                 /\ Cardinality(Held(book')) <= MaxPositions]_bookVars

(* Once a checkpoint of a UTC day is written, the NAV the daily loss of    *)
(* that day is measured from is settled: no cycle, unsaved cycle, crash or *)
(* restart of the same day moves it (roll_day, from_state).  Before that   *)
(* checkpoint it is not: after a crash the day is anchored anew, at the    *)
(* NAV of the checkpoint of the day before.                                *)
AnchorStands ==
    anchor.day = date => book.dayDate = date /\ book.dayNav = anchor.nav

(* From every book that has a snapshot, however far past its limits, a     *)
(* stop-loss that fires gets out at once, with the last trade, the mark of *)
(* the cycle before and the mid of the fill wherever they are: it sells at *)
(* least the share of the position that the lowest of the three prices it  *)
(* is sized by, capped by and filled at has in the price of the fill, if   *)
(* an order of that share can be planned.  On a falling price with the mid *)
(* no higher than the last trade that is the whole position.  With the mid *)
(* above the last trade, the usual book of a sell-off, a rest may stay,    *)
(* which tests/security/test_protective_exit_sizing.py does not expect: it *)
(* sizes and fills at one price.  Limits never stand in its way and it     *)
(* never oversells (_exit_result, evaluate, apply).                        *)
StopLossGetsOut ==
    \A a \in Held(book), last \in Prices :
        (SnapshotTaken /\ StopLoss(book.pos[a], last)) =>
        \A mid \in Mids(last), signal \in Signals \ {"blocked"} :
            LET s      == RollDay(book, date)
                held   == s.pos[a].qty
                price  == FillPrice("sell", mid)
                lowest == Min({Below(last, SlipPct), s.marks[a], price})
                share  == (held * lowest) \div price
                left   == PaperFill(s, a, Decided(s, a, last, signal), mid).pos[a].qty
            IN  0 <= left /\ (Plannable(share, price) => held - left >= share)
=============================================================================
