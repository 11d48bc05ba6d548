------------------------- MODULE TradingBookProofs --------------------------
(***************************************************************************)
(* Proofs about TradingBook, for any finite set of assets, any prices and  *)
(* any settings: a book whose reserve covers the fee never overdraws its   *)
(* cash, entries respect the limits they were judged by, a stop-loss sells *)
(* what its prices allow, and the NAV a day is measured from stands from   *)
(* its first checkpoint on.                                                *)
(***************************************************************************)
EXTENDS TradingBook, SumLemmas

Position == [qty : Nat, avg : Nat, high : Nat]

Book ==
    [cash : Int, peak : Int, pos : [Assets -> Position], marks : [Assets -> Nat],
     dayNav : Int, dayDate : Int]

(* What is held is marked, at no more than its high-water price; what is   *)
(* not held has no trace.                                                  *)
PositionSound(b, a) ==
    IF b.pos[a].qty > 0 THEN b.marks[a] > 0 /\ b.pos[a].high >= b.marks[a]
                        ELSE b.pos[a] = Flat

(* What every book of the service is, in memory and in the checkpoint. *)
Sound(b) ==
    /\ b \in Book
    /\ ReservePct >= FeePct => b.cash >= 0
    /\ \A a \in Assets : PositionSound(b, a)
    /\ Cardinality(Held(b)) <= MaxPositions

(* The checkpoint is no younger than the book, whose day is not to come. *)
DaysInOrder ==
    /\ date \in Nat
    /\ Undated <= saved.dayDate /\ saved.dayDate <= book.dayDate /\ book.dayDate <= date

(* The anchor is that of the checkpoint, and of the book if the day of     *)
(* both is the same.                                                       *)
AnchorKept ==
    /\ anchor.day = saved.dayDate
    /\ anchor.nav = saved.dayNav
    /\ book.dayDate = saved.dayDate => book.dayNav = saved.dayNav

BookInv == Sound(book) /\ Sound(saved) /\ DaysInOrder /\ AnchorKept

-----------------------------------------------------------------------------
(***************************************************************************)
(* Arithmetic of percentages and prices.                                   *)
(***************************************************************************)
LEMMA DivisionBounds ==
    ASSUME NEW n \in Nat, NEW p \in Nat \ {0}
    PROVE  n \div p \in Nat /\ (n \div p) * p <= n /\ n < (n \div p) * p + p
  OBVIOUS

LEMMA ProductGrows ==
    ASSUME NEW m \in Nat, NEW n \in Nat, NEW p \in Nat, NEW q \in Nat, m <= n, p <= q
    PROVE  m * p \in Nat /\ n * q \in Nat /\ m * p <= n * q
<1>1. m * p <= n * p
  OBVIOUS
<1>2. n * p <= n * q
  OBVIOUS
<1> QED
  BY <1>1, <1>2

LEMMA DivisionGrows ==
    ASSUME NEW m \in Nat, NEW n \in Nat, m <= n
    PROVE  m \div 100 <= n \div 100
  OBVIOUS

(* The settings, as the proofs use them. *)
LEMMA Settings ==
    /\ FeePct \in 0 .. 99 /\ SlipPct \in 0 .. 99
    /\ ReservePct \in 0 .. 99
    /\ GrossPct \in Nat /\ PositionPct \in Nat /\ DemoPct \in Nat
    /\ DailyLossPct \in Nat /\ DrawdownPct \in Nat /\ StopPct \in Nat
    /\ MaxPositions \in Nat \ {0} /\ MinNotional \in Nat \ {0} /\ StartingNav \in Nat \ {0}
  BY BookAssumption

(* The fee of a fill is a part of it. *)
LEMMA FeeBounds ==
    ASSUME NEW n \in Nat
    PROVE  /\ FeeOf(n) \in Nat /\ FeeOf(n) <= n
           /\ (n + FeeOf(n)) * 100 <= (100 + FeePct) * n
<1>1. n * FeePct \in Nat /\ n * FeePct <= n * 100
  BY Settings, ProductGrows
<1>2. FeeOf(n) \in Nat /\ FeeOf(n) * 100 <= n * FeePct
  BY <1>1, DivisionBounds DEF FeeOf
<1>3. (n + FeeOf(n)) * 100 = n * 100 + FeeOf(n) * 100
  BY <1>2
<1>4. (100 + FeePct) * n = n * 100 + n * FeePct
  BY Settings
<1> QED
  BY <1>1, <1>2, <1>3, <1>4

(* The reserve covers the fee of whatever it leaves to spend. *)
LEMMA ReserveCoversFee ==
    ASSUME FeePct <= ReservePct, NEW cash \in Nat, NEW nav \in Nat, cash <= nav,
           NEW n \in Nat, n <= cash - (nav * ReservePct) \div 100
    PROVE  n + FeeOf(n) <= cash
<1>1. nav * ReservePct \in Nat
  BY Settings
<1>2. (nav * ReservePct) \div 100 \in Nat
  BY <1>1, DivisionBounds
<1>3. n <= nav
  BY <1>2
<1>4. n * FeePct \in Nat /\ n * FeePct <= nav * ReservePct
  BY <1>3, Settings, ProductGrows
<1>5. FeeOf(n) <= (nav * ReservePct) \div 100 /\ FeeOf(n) \in Nat
  BY <1>1, <1>4, DivisionGrows, DivisionBounds DEF FeeOf
<1> QED
  BY <1>2, <1>5

(* The prices a fill can print are positive, and a sale at or below the    *)
(* last trade prints at most what its size was computed with.              *)
LEMMA FillPrices ==
    ASSUME NEW last \in Prices, NEW mid \in Mids(last)
    PROVE  /\ last \in Nat \ {0} /\ mid \in Nat \ {0}
           /\ FillPrice("buy", mid) \in Nat \ {0}
           /\ FillPrice("sell", mid) \in Nat \ {0}
<1>1. /\ last \in Nat \ {0} /\ Skew \in Nat /\ Skew < last
      /\ 100 <= (last - Skew) * (100 - SlipPct)
  BY BookAssumption
<1>2. mid \in Nat \ {0} /\ last - Skew <= mid
  BY <1>1 DEF Mids
<1>3. 100 - SlipPct \in Nat /\ 100 + SlipPct \in Nat /\ 100 <= 100 + SlipPct
  BY Settings
<1>4. mid * (100 - SlipPct) \in Nat /\ 100 <= mid * (100 - SlipPct)
  <2>1. (last - Skew) * (100 - SlipPct) <= mid * (100 - SlipPct)
    BY <1>1, <1>2, <1>3, ProductGrows
  <2> QED
    BY <1>1, <1>2, <1>3, <2>1
<1>5. mid * (100 + SlipPct) \in Nat /\ 100 <= mid * (100 + SlipPct)
  <2>1. 1 * 100 <= mid * (100 + SlipPct)
    BY <1>2, <1>3, ProductGrows
  <2> QED
    BY <1>2, <1>3, <2>1
<1> QED
  BY <1>1, <1>2, <1>4, <1>5 DEF FillPrice, Below

LEMMA BelowGrows ==
    ASSUME NEW m \in Nat, NEW n \in Nat, m <= n
    PROVE  /\ Below(m, SlipPct) \in Nat /\ Below(n, SlipPct) \in Nat
           /\ Below(m, SlipPct) <= Below(n, SlipPct) /\ Below(n, SlipPct) <= n
<1>1. 100 - SlipPct \in Nat /\ 100 - SlipPct <= 100
  BY Settings
<1>2. /\ m * (100 - SlipPct) \in Nat /\ n * (100 - SlipPct) \in Nat
      /\ m * (100 - SlipPct) <= n * (100 - SlipPct)
      /\ n * (100 - SlipPct) <= n * 100
  BY <1>1, ProductGrows
<1> QED
  BY <1>2, DivisionGrows DEF Below

-----------------------------------------------------------------------------
(***************************************************************************)
(* What the operations of the book keep.                                   *)
(***************************************************************************)

(* nav_usd: the NAV is the cash and more. *)
LEMMA NavBounds ==
    ASSUME NEW b \in Book
    PROVE  /\ Exposures(b) \in [Assets -> Nat]
           /\ Gross(Exposures(b)) \in Nat
           /\ Nav(b) = b.cash + Gross(Exposures(b)) /\ Nav(b) \in Int
<1>1. \A a \in Assets : b.pos[a].qty \in Nat /\ b.marks[a] \in Nat
  BY DEF Book, Position
<1>2. Exposures(b) \in [Assets -> Nat]
  <2>1. \A a \in Assets : b.pos[a].qty * b.marks[a] \in Nat
    BY <1>1
  <2> QED
    BY <2>1 DEF Exposures
<1>3. SumOver(Exposures(b), Assets) \in Nat
  BY <1>2, BookAssumption, SumOfNats
<1>4. Gross(Exposures(b)) = SumOver(Exposures(b), Assets)
  BY DEF Gross, SumOver
<1>5. Nav(b) = b.cash + Gross(Exposures(b))
  BY DEF Nav
<1>6. b.cash \in Int
  BY DEF Book
<1> QED
  BY <1>2, <1>3, <1>4, <1>5, <1>6

LEMMA HeldFinite ==
    ASSUME NEW b
    PROVE  IsFiniteSet(Held(b)) /\ Cardinality(Held(b)) \in Nat
<1>1. Held(b) \in SUBSET Assets
  BY DEF Held
<1> QED
  BY <1>1, BookAssumption, FS_Subset, FS_CardinalityType

(* roll_day moves the anchor and nothing else. *)
LEMMA RollDaySound ==
    ASSUME NEW b, Sound(b), NEW today \in Nat
    PROVE  /\ Sound(RollDay(b, today))
           /\ RollDay(b, today).dayDate = today
           /\ RollDay(b, today).pos = b.pos /\ RollDay(b, today).marks = b.marks
           /\ RollDay(b, today).cash = b.cash /\ RollDay(b, today).peak = b.peak
           /\ Nav(RollDay(b, today)) = Nav(b)
           /\ b.dayDate \in {today, Undated} => RollDay(b, today).dayNav = b.dayNav
<1> DEFINE r == RollDay(b, today)
<1>1. b \in Book /\ Nav(b) \in Int
  BY NavBounds DEF Sound
<1>2. /\ r \in Book /\ r.dayDate = today /\ r.pos = b.pos /\ r.marks = b.marks
      /\ r.cash = b.cash /\ r.peak = b.peak
      /\ b.dayDate \in {today, Undated} => r.dayNav = b.dayNav
  <2>1. CASE b.dayDate = Undated
    BY <1>1, <2>1 DEF RollDay, Book
  <2>2. CASE b.dayDate # Undated /\ b.dayDate = today
    BY <1>1, <2>2 DEF RollDay, Book
  <2>3. CASE b.dayDate # Undated /\ b.dayDate # today
    <3>1. r = [b EXCEPT !.dayDate = today, !.dayNav = Nav(b)]
      BY <2>3 DEF RollDay
    <3>2. today \in Int
      OBVIOUS
    <3> QED
      BY <1>1, <2>3, <3>1, <3>2 DEF Book
  <2> QED
    BY <2>1, <2>2, <2>3
<1>3. Held(r) = Held(b)
  BY <1>2 DEF Held
<1>4. Sound(r)
  BY <1>2, <1>3 DEF Sound, PositionSound
<1>5. Nav(r) = Nav(b)
  BY <1>2 DEF Nav, Exposures
<1> QED
  BY <1>2, <1>4, <1>5

(* The two ways in which a position is written. *)
Revalued(b, a, price, h) == [b EXCEPT !.marks[a] = price, !.pos[a].high = h]

Refilled(b, a, new, cash) == [b EXCEPT !.pos[a] = new, !.cash = cash]

LEMMA RevaluedBook ==
    ASSUME NEW b \in Book, NEW a \in Assets, NEW price \in Nat, NEW h \in Nat
    PROVE  LET m == Revalued(b, a, price, h) IN
           /\ m \in Book /\ m.cash = b.cash /\ m.dayNav = b.dayNav /\ m.dayDate = b.dayDate
           /\ m.marks[a] = price
           /\ m.pos[a] = [qty |-> b.pos[a].qty, avg |-> b.pos[a].avg, high |-> h]
           /\ \A c \in Assets \ {a} : m.pos[c] = b.pos[c] /\ m.marks[c] = b.marks[c]
<1> DEFINE m == Revalued(b, a, price, h)
<1>1. m.cash = b.cash /\ m.dayNav = b.dayNav /\ m.dayDate = b.dayDate
  BY DEF Revalued, Book
<1>2. m.marks = [b.marks EXCEPT ![a] = price]
  BY DEF Revalued, Book
<1>3. m.pos = [b.pos EXCEPT ![a] = [b.pos[a] EXCEPT !.high = h]]
  BY DEF Revalued, Book
<1>5. b.pos[a] \in Position /\ b.pos \in [Assets -> Position] /\ b.marks \in [Assets -> Nat]
  BY DEF Book
<1>4. m \in Book
  <2>1. [b.pos[a] EXCEPT !.high = h] \in Position
    BY <1>5 DEF Position
  <2>2. m.pos \in [Assets -> Position] /\ m.marks \in [Assets -> Nat]
    BY <1>2, <1>3, <1>5, <2>1
  <2>3. m = [b EXCEPT !.marks = m.marks, !.pos = m.pos]
    <3>1. m = [b EXCEPT !.marks = [b.marks EXCEPT ![a] = price],
                        !.pos = [b.pos EXCEPT ![a] = [b.pos[a] EXCEPT !.high = h]]]
      BY DEF Revalued
    <3> HIDE DEF m
    <3> QED
      BY <1>2, <1>3, <3>1
  <2> HIDE DEF m
  <2> QED
    BY <2>2, <2>3 DEF Book
<1>6. [b.pos[a] EXCEPT !.high = h] = [qty |-> b.pos[a].qty, avg |-> b.pos[a].avg, high |-> h]
  BY <1>5 DEF Position
<1> QED
  BY <1>1, <1>2, <1>3, <1>4, <1>5, <1>6

LEMMA RefilledBook ==
    ASSUME NEW b \in Book, NEW a \in Assets, NEW new \in Position, NEW cash \in Int
    PROVE  LET m == Refilled(b, a, new, cash) IN
           /\ m \in Book /\ m.cash = cash /\ m.dayNav = b.dayNav /\ m.dayDate = b.dayDate
           /\ m.pos[a] = new /\ m.marks = b.marks
           /\ \A c \in Assets \ {a} : m.pos[c] = b.pos[c]
<1> DEFINE m == Refilled(b, a, new, cash)
<1>1. m \in Book
  BY DEF Refilled, Book
<1>2. m.cash = cash /\ m.dayNav = b.dayNav /\ m.dayDate = b.dayDate /\ m.marks = b.marks
  BY DEF Refilled, Book
<1>3. m.pos = [b.pos EXCEPT ![a] = new]
  BY DEF Refilled, Book
<1>4. b.pos \in [Assets -> Position]
  BY DEF Refilled, Book
<1> QED
  BY <1>1, <1>2, <1>3, <1>4

(* mark keeps what is held and what it cost. *)
LEMMA MarkSound ==
    ASSUME NEW b, Sound(b), NEW a \in Assets, NEW price \in Nat \ {0}
    PROVE  /\ Sound(Mark(b, a, price)) /\ Held(Mark(b, a, price)) = Held(b)
           /\ Mark(b, a, price).cash = b.cash
           /\ Mark(b, a, price).dayNav = b.dayNav
           /\ Mark(b, a, price).dayDate = b.dayDate
           /\ \A c \in Assets : Mark(b, a, price).pos[c].qty = b.pos[c].qty
<1> DEFINE m == Mark(b, a, price)
<1>1. b \in Book /\ \A c \in Assets : b.pos[c] \in Position /\ b.marks[c] \in Nat
  BY DEF Sound, Book
<1>2. CASE b.pos[a].qty > 0
  <2>1. PICK h : h = AtLeast(b.pos[a].high, price)
    OBVIOUS
  <2>2. h \in Nat /\ h >= price
    BY <1>1, <2>1 DEF AtLeast, Position
  <2>3. /\ m \in Book /\ m.cash = b.cash /\ m.dayNav = b.dayNav /\ m.dayDate = b.dayDate
        /\ m.marks[a] = price /\ m.pos[a].high = h
        /\ m.pos[a].qty = b.pos[a].qty
        /\ \A c \in Assets \ {a} : m.pos[c] = b.pos[c] /\ m.marks[c] = b.marks[c]
    <3>1. m = Revalued(b, a, price, h)
      BY <1>2, <2>1 DEF Mark, Revalued
    <3> HIDE DEF m
    <3>2. price \in Nat
      OBVIOUS
    <3>3. /\ m \in Book /\ m.cash = b.cash /\ m.dayNav = b.dayNav /\ m.dayDate = b.dayDate
          /\ m.marks[a] = price
          /\ m.pos[a] = [qty |-> b.pos[a].qty, avg |-> b.pos[a].avg, high |-> h]
          /\ \A c \in Assets \ {a} : m.pos[c] = b.pos[c] /\ m.marks[c] = b.marks[c]
      BY <1>1, <2>2, <3>1, <3>2, RevaluedBook
    <3> QED
      BY <3>3
  <2>4. \A c \in Assets : m.pos[c].qty = b.pos[c].qty
    BY <2>3
  <2>5. \A c \in Assets : PositionSound(m, c)
    BY <1>2, <2>2, <2>3 DEF Sound, PositionSound
  <2>6. Held(m) = Held(b)
    BY <2>4 DEF Held
  <2> QED
    BY <2>3, <2>4, <2>5, <2>6 DEF Sound
<1>3. CASE ~ (b.pos[a].qty > 0)
  <2>1. m = [b EXCEPT !.marks[a] = 0]
    BY <1>3 DEF Mark
  <2>2. /\ m \in Book /\ m.cash = b.cash /\ m.dayNav = b.dayNav /\ m.dayDate = b.dayDate
        /\ m.pos = b.pos
        /\ \A c \in Assets \ {a} : m.marks[c] = b.marks[c]
    BY <1>1, <2>1 DEF Book
  <2>3. \A c \in Assets : PositionSound(m, c)
    BY <1>3, <2>2 DEF Sound, PositionSound
  <2>4. Held(m) = Held(b)
    BY <2>2 DEF Held
  <2> QED
    BY <2>2, <2>3, <2>4 DEF Sound
<1> QED
  BY <1>2, <1>3

(* The peak follows the NAV and nothing else changes. *)
LEMMA WithPeakSound ==
    ASSUME NEW b, Sound(b)
    PROVE  /\ Sound(WithPeak(b)) /\ WithPeak(b).pos = b.pos
           /\ WithPeak(b).cash = b.cash
           /\ WithPeak(b).dayNav = b.dayNav /\ WithPeak(b).dayDate = b.dayDate
<1> DEFINE w == WithPeak(b)
<1>1. b \in Book /\ Nav(b) \in Int
  BY NavBounds DEF Sound
<1>2. AtLeast(b.peak, Nav(b)) \in Int
  BY <1>1 DEF AtLeast, Book
<1>3. /\ w \in Book /\ w.pos = b.pos /\ w.marks = b.marks
      /\ w.cash = b.cash /\ w.dayNav = b.dayNav /\ w.dayDate = b.dayDate
  BY <1>1, <1>2 DEF WithPeak, Book
<1>4. Held(w) = Held(b)
  BY <1>3 DEF Held
<1> QED
  BY <1>3, <1>4 DEF Sound, PositionSound

(* The cash can pay for a purchase and its fee, where it must. *)
Payable(b, notional) ==
    ReservePct >= FeePct => notional + FeeOf(notional) <= b.cash

(* apply_fill of a buy that the cash can pay. *)
LEMMA BuySound ==
    ASSUME NEW b, Sound(b), NEW a \in Assets, NEW qty \in Nat \ {0}, NEW price \in Nat \ {0},
           Payable(b, qty * price),
           Cardinality(Held(b) \cup {a}) <= MaxPositions
    PROVE  LET f == ApplyFill(b, a, "buy", qty, price)
           IN  /\ Sound(f) /\ Held(f) = Held(b) \cup {a}
               /\ f.cash = b.cash - qty * price - FeeOf(qty * price)
               /\ f.dayNav = b.dayNav /\ f.dayDate = b.dayDate
               /\ \A c \in Assets \ {a} : f.pos[c].qty = b.pos[c].qty
               /\ f.pos[a].qty = b.pos[a].qty + qty
<1> DEFINE bought == Bought(b, a, qty, price)
           m == Mark(bought, a, price)
           old == b.pos[a]
           avg == (old.qty * old.avg + qty * price) \div (old.qty + qty)
           high == IF old.qty = 0 THEN price ELSE AtLeast(old.high, price)
           new == [qty |-> old.qty + qty, avg |-> avg, high |-> high]
           cash == b.cash - qty * price - FeeOf(qty * price)
<1>1. /\ b \in Book /\ old \in Position
      /\ old.qty \in Nat /\ old.avg \in Nat /\ old.high \in Nat /\ b.cash \in Int
  BY DEF Sound, Book, Position
<1>2. qty * price \in Nat /\ FeeOf(qty * price) \in Nat
  BY FeeBounds
<1>3. avg \in Nat
  <2>1. old.qty * old.avg + qty * price \in Nat /\ old.qty + qty \in Nat \ {0}
    BY <1>1, <1>2
  <2> QED
    BY <2>1, DivisionBounds
<1>4. high \in Nat /\ high >= price
  BY <1>1 DEF AtLeast
<1>5. cash \in Int /\ (ReservePct >= FeePct => cash >= 0)
  BY <1>1, <1>2 DEF Payable
<1>6. new \in Position /\ new.qty = old.qty + qty /\ new.high = high
  <2> HIDE DEF avg, high
  <2> QED
    BY <1>1, <1>3, <1>4 DEF Position
<1>7. bought = Refilled(b, a, new, cash)
  BY DEF Bought, Refilled
<1> HIDE DEF avg, high, cash, new, bought
<1>8. /\ bought \in Book /\ bought.cash = cash
      /\ bought.dayNav = b.dayNav /\ bought.dayDate = b.dayDate
      /\ bought.pos[a] = new /\ bought.marks = b.marks
      /\ \A c \in Assets \ {a} : bought.pos[c] = b.pos[c]
  <2>1. b \in Book /\ cash \in Int /\ new \in Position
    BY <1>1, <1>5, <1>6
  <2> QED
    BY <1>7, <2>1, RefilledBook
<1>9. AtLeast(bought.pos[a].high, price) = high /\ bought.pos[a].qty > 0
  BY <1>1, <1>4, <1>6, <1>8 DEF AtLeast
<1>10. m = Revalued(bought, a, price, high)
  BY <1>9 DEF Mark, Revalued
<1> HIDE DEF m
<1>11. /\ m \in Book /\ m.cash = cash /\ m.dayNav = b.dayNav /\ m.dayDate = b.dayDate
       /\ m.pos[a].qty = old.qty + qty /\ m.pos[a].high = high /\ m.marks[a] = price
       /\ \A c \in Assets \ {a} : m.pos[c] = b.pos[c] /\ m.marks[c] = b.marks[c]
  <2>1. price \in Nat
    OBVIOUS
  <2>2. high \in Nat /\ bought \in Book
    BY <1>4, <1>8
  <2>3. /\ m \in Book /\ m.cash = bought.cash
        /\ m.dayNav = bought.dayNav /\ m.dayDate = bought.dayDate
        /\ m.marks[a] = price
        /\ m.pos[a] = [qty |-> bought.pos[a].qty, avg |-> bought.pos[a].avg, high |-> high]
        /\ \A c \in Assets \ {a} : m.pos[c] = bought.pos[c] /\ m.marks[c] = bought.marks[c]
    BY <1>10, <2>1, <2>2, RevaluedBook
  <2> QED
    BY <1>6, <1>8, <2>3
<1>12. \A c \in Assets : PositionSound(m, c)
  BY <1>1, <1>4, <1>11 DEF Sound, PositionSound
<1>13. Held(m) = Held(b) \cup {a}
  BY <1>1, <1>11 DEF Held
<1>14. Sound(m)
  BY <1>5, <1>11, <1>12, <1>13 DEF Sound
<1>15. ApplyFill(b, a, "buy", qty, price) = WithPeak(m)
  BY DEF ApplyFill, m, bought
<1>16. Held(WithPeak(m)) = Held(m)
  BY <1>14, WithPeakSound DEF Held
<1> QED
  BY <1>11, <1>13, <1>14, <1>15, <1>16, WithPeakSound DEF cash

(* apply_fill of a sale of no more than is held. *)
LEMMA SellSound ==
    ASSUME NEW b, Sound(b), NEW a \in Assets, NEW qty \in Nat \ {0}, NEW price \in Nat \ {0},
           qty <= b.pos[a].qty
    PROVE  LET f == ApplyFill(b, a, "sell", qty, price)
           IN  /\ Sound(f)
               /\ f.dayNav = b.dayNav /\ f.dayDate = b.dayDate
               /\ \A c \in Assets \ {a} : f.pos[c].qty = b.pos[c].qty
               /\ f.pos[a].qty = b.pos[a].qty - qty
               /\ qty = b.pos[a].qty => f.pos[a] = Flat
<1> DEFINE sold == Sold(b, a, qty, price)
           m == Mark(sold, a, price)
           old == b.pos[a]
           new == IF qty = old.qty THEN Flat ELSE [old EXCEPT !.qty = old.qty - qty]
           cash == b.cash + qty * price - FeeOf(qty * price)
<1>1. /\ b \in Book /\ old \in Position
      /\ old.qty \in Nat /\ old.avg \in Nat /\ old.high \in Nat /\ b.cash \in Int
  BY DEF Sound, Book, Position
<1>2. qty * price \in Nat /\ FeeOf(qty * price) \in Nat /\ FeeOf(qty * price) <= qty * price
  BY FeeBounds
<1>3. cash \in Int /\ (ReservePct >= FeePct => cash >= 0)
  BY <1>1, <1>2 DEF Sound
<1>4. sold = Refilled(b, a, new, cash)
  BY DEF Sold, Refilled
<1>5. /\ new \in Position /\ new.qty = old.qty - qty
      /\ qty = old.qty => new = Flat
      /\ qty # old.qty => new.qty > 0 /\ new.high = old.high
  <2>1. CASE qty = old.qty
    BY <1>1, <2>1 DEF Flat, Position
  <2>2. CASE qty # old.qty
    <3>1. new = [old EXCEPT !.qty = old.qty - qty] /\ old.qty - qty \in Nat \ {0}
      BY <1>1, <2>2
    <3> HIDE DEF new
    <3> QED
      BY <1>1, <2>2, <3>1 DEF Position
  <2> QED
    BY <2>1, <2>2
<1> HIDE DEF cash, new, sold
<1>6. b \in Book /\ cash \in Int /\ new \in Position
  BY <1>1, <1>3, <1>5
<1>7. /\ sold \in Book /\ sold.cash = cash
      /\ sold.dayNav = b.dayNav /\ sold.dayDate = b.dayDate
      /\ sold.pos[a] = new /\ sold.marks = b.marks
      /\ \A c \in Assets \ {a} : sold.pos[c] = b.pos[c]
  BY <1>4, <1>6, RefilledBook
<1>8. \A c \in Assets : PositionSound(sold, c)
  <2>1. PositionSound(b, a) /\ old.qty > 0
    BY <1>1 DEF Sound
  <2>2. PositionSound(sold, a)
    BY <1>1, <1>5, <1>7, <2>1 DEF PositionSound, Flat
  <2> QED
    BY <1>7, <2>2 DEF Sound, PositionSound
<1>9. Held(sold) \subseteq Held(b)
  BY <1>1, <1>7 DEF Held
<1>10. Cardinality(Held(sold)) <= MaxPositions
  <2>1. Cardinality(Held(sold)) <= Cardinality(Held(b))
    BY <1>9, HeldFinite, FS_Subset
  <2> QED
    BY <2>1, HeldFinite, Settings DEF Sound
<1>11. Sound(sold)
  BY <1>3, <1>7, <1>8, <1>10 DEF Sound
<1>12. /\ Sound(m) /\ m.dayNav = b.dayNav /\ m.dayDate = b.dayDate
       /\ \A c \in Assets : m.pos[c].qty = sold.pos[c].qty
  BY <1>7, <1>11, MarkSound
<1>13. /\ \A c \in Assets \ {a} : m.pos[c].qty = b.pos[c].qty
       /\ m.pos[a].qty = old.qty - qty
  BY <1>5, <1>7, <1>12
<1>14. qty = old.qty => m.pos[a] = Flat
  BY <1>1, <1>12, <1>13 DEF Sound, PositionSound
<1>15. ApplyFill(b, a, "sell", qty, price) = WithPeak(m)
  BY DEF ApplyFill, sold
<1> HIDE DEF m
<1> QED
  BY <1>12, <1>13, <1>14, <1>15, WithPeakSound

-----------------------------------------------------------------------------
(***************************************************************************)
(* What the engine approves and the simulator fills.                       *)
(***************************************************************************)

(* snapshot: the figures the limits are judged by. *)
LEMMA SnapshotFacts ==
    ASSUME NEW b, Sound(b), Nav(b) > 0, NEW a \in Assets
    PROVE  LET s == Snapshot(b) IN
           /\ s.nav \in Nat /\ s.cash \in Nat /\ s.cash <= s.nav
           /\ b.cash >= 0 => s.cash = b.cash
           /\ s.exposure[a] = b.pos[a].qty * b.marks[a] /\ s.exposure[a] \in Nat
           /\ OpenPositions(s) = Held(b)
           /\ PositionRoom(s, a) \in Int /\ GrossRoom(s) \in Int /\ CashRoom(s) \in Int
           /\ CashRoom(s) = s.cash - (s.nav * ReservePct) \div 100
<1> DEFINE s == Snapshot(b)
           e == Exposures(b)
<1>1. b \in Book /\ b.cash \in Int
  BY DEF Sound, Book
<1>2. e \in [Assets -> Nat] /\ Gross(e) \in Nat /\ Nav(b) = b.cash + Gross(e)
  BY <1>1, NavBounds
<1>3. /\ s.nav = b.cash + Gross(e) /\ s.cash = AtLeast(b.cash, 0)
      /\ s.gross = Gross(e) /\ s.exposure = e
  BY DEF Snapshot
<1>4. /\ s.nav \in Nat /\ s.cash \in Nat /\ s.cash <= s.nav
      /\ b.cash >= 0 => s.cash = b.cash
  BY <1>1, <1>2, <1>3 DEF AtLeast
<1>5. \A c \in Assets : s.exposure[c] = b.pos[c].qty * b.marks[c] /\ s.exposure[c] \in Nat
  BY <1>2, <1>3 DEF Exposures
<1>6. \A c \in Assets : s.exposure[c] > 0 <=> b.pos[c].qty > 0
  <2> SUFFICES ASSUME NEW c \in Assets PROVE s.exposure[c] > 0 <=> b.pos[c].qty > 0
    OBVIOUS
  <2>1. b.pos[c].qty \in Nat /\ b.marks[c] \in Nat
    BY <1>1 DEF Book, Position
  <2>2. b.pos[c].qty > 0 => b.marks[c] > 0
    BY DEF Sound, PositionSound
  <2>3. CASE b.pos[c].qty > 0
    BY <1>5, <2>1, <2>2, <2>3
  <2>4. CASE b.pos[c].qty = 0
    BY <1>5, <2>1, <2>4
  <2> QED
    BY <2>1, <2>3, <2>4
<1>7. OpenPositions(s) = Held(b)
  BY <1>6 DEF OpenPositions, Held
<1>8. /\ s.nav * PositionPct \in Nat /\ s.nav * GrossPct \in Nat /\ s.nav * ReservePct \in Nat
  BY <1>4, Settings
<1>9. /\ (s.nav * PositionPct) \div 100 \in Nat /\ (s.nav * GrossPct) \div 100 \in Nat
      /\ (s.nav * ReservePct) \div 100 \in Nat
  BY <1>8, DivisionBounds
<1>10. CashRoom(s) = s.cash - (s.nav * ReservePct) \div 100 /\ CashRoom(s) \in Int
  BY <1>4, <1>9 DEF CashRoom
<1>11. PositionRoom(s, a) \in Int
  BY <1>5, <1>9 DEF PositionRoom
<1>12. GrossRoom(s) \in Int
  BY <1>2, <1>3, <1>9 DEF GrossRoom
<1> HIDE DEF s
<1> QED
  BY <1>4, <1>5, <1>7, <1>10, <1>11, <1>12 DEF s

(* The tightest constraint wins. *)
LEMMA TightestWins ==
    ASSUME NEW w \in Int, NEW x \in Int, NEW y \in Int, NEW z \in Int
    PROVE  LET m == Min({w, x, y, z})
           IN  m \in Int /\ m <= w /\ m <= x /\ m <= y /\ m <= z
<1>1. \E m \in {w, x, y, z} : \A n \in {w, x, y, z} : m <= n
  OBVIOUS
<1> QED
  BY <1>1 DEF Min

Bounded(s, a, n) == n <= PositionRoom(s, a) /\ n <= GrossRoom(s) /\ n <= CashRoom(s)

(* evaluate: an order to buy is within the limits of the snapshot. *)
LEMMA ApprovedOrder ==
    ASSUME NEW b, Sound(b), Nav(b) > 0, NEW a \in Assets, NEW side \in {"buy", "sell"},
           NEW requested \in Nat, NEW reduceOnly \in BOOLEAN,
           Evaluate(Snapshot(b), a, side, requested, reduceOnly) # NoOrder
    PROVE  LET order == Evaluate(Snapshot(b), a, side, requested, reduceOnly) IN
           /\ order.side = side /\ order.reduceOnly = reduceOnly
           /\ order.notional \in Nat \ {0}
           /\ side = "buy" => /\ ~ AddingBlocked(Snapshot(b), a)
                              /\ Bounded(Snapshot(b), a, order.notional)
<1> DEFINE s == Snapshot(b)
           order == Evaluate(s, a, side, requested, reduceOnly)
<1>1. /\ s.exposure[a] \in Nat
      /\ PositionRoom(s, a) \in Int /\ GrossRoom(s) \in Int /\ CashRoom(s) \in Int
  BY SnapshotFacts
<1> HIDE DEF s
<1>2. ASSUME NEW n \in Int, order = Order(side, n, reduceOnly)
      PROVE  /\ order.side = side /\ order.reduceOnly = reduceOnly
             /\ order.notional = n /\ n \in Nat \ {0}
  <2>1. n > 0
    BY <1>2 DEF Order, s
  <2>2. order = [side |-> side, notional |-> n, reduceOnly |-> reduceOnly]
    BY <1>2, <2>1 DEF Order
  <2> HIDE DEF order
  <2> QED
    BY <2>1, <2>2
<1>3. CASE Reducing(s, a, side)
  <2>1. order = Order(side, AtMost(requested, s.exposure[a]), reduceOnly)
    BY <1>3 DEF Evaluate
  <2>2. AtMost(requested, s.exposure[a]) \in Int /\ side # "buy"
    BY <1>1, <1>3 DEF AtMost, Reducing
  <2> HIDE DEF order
  <2> QED
    BY <1>2, <2>1, <2>2 DEF s, order
<1>4. CASE ~ Reducing(s, a, side)
  <2>1. ~ AddingBlocked(s, a) /\ order = Order(side, ApprovedAdding(s, a, requested), reduceOnly)
    BY <1>4 DEF Evaluate, s
  <2>2. /\ ApprovedAdding(s, a, requested) \in Int
        /\ Bounded(s, a, ApprovedAdding(s, a, requested))
    <3>1. requested \in Int
      OBVIOUS
    <3> QED
      BY <1>1, <3>1, TightestWins DEF ApprovedAdding, Bounded
  <2> HIDE DEF order
  <2> QED
    BY <1>2, <2>1, <2>2 DEF s, order
<1> QED
  BY <1>3, <1>4

(* process: every order is one the engine approved, and an entry is none   *)
(* that may only reduce.                                                   *)
LEMMA DecidedOrder ==
    ASSUME NEW b, Sound(b), Nav(b) > 0, NEW a \in Assets, NEW last \in Prices, NEW signal \in Signals,
           Decided(b, a, last, signal) # NoOrder
    PROVE  LET order == Decided(b, a, last, signal) IN
           /\ order.side \in {"buy", "sell"} /\ order.notional \in Nat \ {0}
           /\ order.side = "buy" => /\ order.reduceOnly = FALSE
                                    /\ ~ AddingBlocked(Snapshot(b), a)
                                    /\ Bounded(Snapshot(b), a, order.notional)
<1> DEFINE order == Decided(b, a, last, signal)
<1>0. order # NoOrder /\ TRUE \in BOOLEAN /\ FALSE \in BOOLEAN
  OBVIOUS
<1>1. CASE IsExit(b.pos[a], last, signal)
  <2> DEFINE n == ExitNotional(b.pos[a], last)
  <2>1. order = Evaluate(Snapshot(b), a, "sell", n, TRUE)
    BY <1>1 DEF Decided
  <2>2. n \in Nat
    <3>1. last \in Nat /\ b.pos[a].qty \in Nat
      BY BookAssumption DEF Sound, Book, Position
    <3>2. Below(last, SlipPct) \in Nat
      BY <3>1, BelowGrows
    <3> QED
      BY <3>1, <3>2 DEF ExitNotional
  <2> HIDE DEF n, order
  <2>3. PICK ro \in BOOLEAN : order = Evaluate(Snapshot(b), a, "sell", n, ro)
    BY <2>1
  <2>4. order.side = "sell" /\ order.notional \in Nat \ {0}
    BY <1>0, <2>2, <2>3, ApprovedOrder
  <2> QED
    BY <2>4 DEF order
<1>2. CASE ~ IsExit(b.pos[a], last, signal)
  <2> DEFINE n == (Snapshot(b).nav * DemoPct) \div 100
  <2>1. signal \in {"buy", "sell"} /\ order = Evaluate(Snapshot(b), a, signal, n, FALSE)
    BY <1>2 DEF Decided
  <2>2. n \in Nat
    <3>1. Snapshot(b).nav * DemoPct \in Nat
      BY SnapshotFacts, Settings
    <3> QED
      BY <3>1, DivisionBounds
  <2> HIDE DEF n, order
  <2>3. /\ order.side = signal /\ order.reduceOnly = FALSE
        /\ order.notional \in Nat \ {0}
        /\ signal = "buy" => /\ ~ AddingBlocked(Snapshot(b), a)
                             /\ Bounded(Snapshot(b), a, order.notional)
    <3>1. PICK ro \in BOOLEAN : ro = FALSE
      OBVIOUS
    <3>2. order = Evaluate(Snapshot(b), a, signal, n, ro)
      BY <2>1, <3>1
    <3>3. CASE signal = "sell"
      <4>1. order = Evaluate(Snapshot(b), a, "sell", n, ro)
        BY <3>2, <3>3
      <4>2. order.side = "sell" /\ order.reduceOnly = ro /\ order.notional \in Nat \ {0}
        BY <1>0, <2>2, <4>1, ApprovedOrder
      <4> QED
        BY <3>1, <3>3, <4>2
    <3>4. CASE signal = "buy"
      <4>1. order = Evaluate(Snapshot(b), a, "buy", n, ro)
        BY <3>2, <3>4
      <4>2. /\ order.side = "buy" /\ order.reduceOnly = ro /\ order.notional \in Nat \ {0}
            /\ ~ AddingBlocked(Snapshot(b), a)
            /\ Bounded(Snapshot(b), a, order.notional)
        BY <1>0, <2>2, <4>1, ApprovedOrder
      <4> QED
        BY <3>1, <3>4, <4>2
    <3> QED
      BY <2>1, <3>3, <3>4
  <2> QED
    BY <2>1, <2>3 DEF order
<1> QED
  BY <1>1, <1>2

(* apply: the simulator books nothing, a sale of no more than is held, or  *)
(* a purchase that costs no more than was approved.                        *)
LEMMA FillOutcome ==
    ASSUME NEW b, Sound(b), Nav(b) > 0, NEW a \in Assets, NEW last \in Prices, NEW signal \in Signals,
           NEW mid \in Mids(last)
    PROVE  LET f == PaperFill(b, a, Decided(b, a, last, signal), mid) IN
           \/ f = b
           \/ \E qty, price \in Nat \ {0} :
                 /\ f = ApplyFill(b, a, "sell", qty, price)
                 /\ qty <= b.pos[a].qty
           \/ \E qty, price \in Nat \ {0} :
                 /\ f = ApplyFill(b, a, "buy", qty, price)
                 /\ ~ AddingBlocked(Snapshot(b), a)
                 /\ Bounded(Snapshot(b), a, qty * price)
<1> DEFINE order == Decided(b, a, last, signal)
           price == FillPrice(order.side, mid)
           qty   == PlannedQty(b, a, order, price)
           f     == PaperFill(b, a, order, mid)
           books == /\ order # NoOrder
                    /\ Plannable(qty, price)
                    /\ order.side = "sell" => qty <= b.pos[a].qty
<1>1. CASE ~ books
  BY <1>1 DEF PaperFill
<1>2. CASE books
  <2>1. f = ApplyFill(b, a, order.side, qty, price)
    BY <1>2 DEF PaperFill
  <2>2. /\ order.side \in {"buy", "sell"} /\ order.notional \in Nat \ {0}
        /\ order.side = "buy" => /\ order.reduceOnly = FALSE
                                 /\ ~ AddingBlocked(Snapshot(b), a)
                                 /\ Bounded(Snapshot(b), a, order.notional)
    BY <1>2, DecidedOrder
  <2> HIDE DEF f, order
  <2>3. price \in Nat \ {0}
    BY <2>2, FillPrices
  <2> HIDE DEF price
  <2>4. /\ order.notional \div price \in Nat
        /\ (order.notional \div price) * price <= order.notional
    <3>1. order.notional \in Nat
      BY <2>2
    <3> QED
      BY <2>3, <3>1, DivisionBounds
  <2>5. qty \in Nat \ {0}
    <3>1. b.pos[a].qty \in Nat
      BY DEF Sound, Book, Position
    <3>2. qty \in Nat
      BY <2>4, <3>1 DEF PlannedQty, AtMost
    <3> QED
      BY <1>2, <3>2 DEF Plannable
  <2>6. CASE order.side = "sell"
    <3>1. qty <= b.pos[a].qty
      BY <1>2, <2>6
    <3> HIDE DEF qty
    <3> QED
      BY <2>1, <2>3, <2>5, <2>6, <3>1 DEF f, order
  <2>7. CASE order.side = "buy"
    <3>1. qty = order.notional \div price
      BY <2>2, <2>7 DEF PlannedQty
    <3> HIDE DEF qty
    <3>2. qty * price \in Int /\ qty * price <= order.notional
      BY <2>3, <2>4, <2>5, <3>1
    <3>3. Bounded(Snapshot(b), a, qty * price)
      <4>1. /\ PositionRoom(Snapshot(b), a) \in Int
            /\ GrossRoom(Snapshot(b)) \in Int /\ CashRoom(Snapshot(b)) \in Int
        BY SnapshotFacts
      <4> QED
        BY <2>2, <2>7, <3>2, <4>1 DEF Bounded
    <3> QED
      BY <2>1, <2>2, <2>3, <2>5, <2>7, <3>3 DEF f, order
  <2> QED
    BY <2>2, <2>6, <2>7
<1> QED
  BY <1>1, <1>2

(* The limits that a fill which adds to a position respects. *)
Limits(s, a, spent) ==
    /\ ~ DailyLossReached(s) /\ ~ DrawdownReached(s)
    /\ spent * 100 <= (100 + FeePct) * PositionRoom(s, a)
    /\ spent * 100 <= (100 + FeePct) * GrossRoom(s)
    /\ spent * 100 <= (100 + FeePct) * CashRoom(s)

LEMMA RoomCoversFee ==
    ASSUME NEW n \in Nat, NEW room \in Int, n <= room
    PROVE  (n + FeeOf(n)) * 100 <= (100 + FeePct) * room
<1>1. room \in Nat /\ 100 + FeePct \in Nat
  BY Settings
<1>2. (100 + FeePct) * n <= (100 + FeePct) * room
  BY <1>1, ProductGrows
<1>3. (n + FeeOf(n)) * 100 <= (100 + FeePct) * n /\ FeeOf(n) \in Nat
  BY FeeBounds
<1>4. (100 + FeePct) * n \in Nat /\ (100 + FeePct) * room \in Nat
  BY <1>1
<1> QED
  BY <1>2, <1>3, <1>4

(* What a fill leaves of a book, and when it may add to a position. *)
LEMMA FilledSound ==
    ASSUME NEW b, Sound(b), Nav(b) > 0, NEW a \in Assets, NEW last \in Prices, NEW signal \in Signals,
           NEW mid \in Mids(last)
    PROVE  LET f == PaperFill(b, a, Decided(b, a, last, signal), mid) IN
           /\ Sound(f) /\ f.dayNav = b.dayNav /\ f.dayDate = b.dayDate
           /\ \A c \in Assets : f.pos[c].qty > b.pos[c].qty =>
                 c = a /\ Limits(Snapshot(b), a, b.cash - f.cash)
<1> DEFINE f == PaperFill(b, a, Decided(b, a, last, signal), mid)
           s == Snapshot(b)
<1>0. \A c \in Assets : b.pos[c].qty \in Nat
  BY DEF Sound, Book, Position
<1>1. CASE f = b
  BY <1>0, <1>1
<1>2. ASSUME NEW qty \in Nat \ {0}, NEW price \in Nat \ {0},
             f = ApplyFill(b, a, "sell", qty, price), qty <= b.pos[a].qty
      PROVE  /\ Sound(f) /\ f.dayNav = b.dayNav /\ f.dayDate = b.dayDate
             /\ \A c \in Assets : ~ (f.pos[c].qty > b.pos[c].qty)
  <2> HIDE DEF f
  <2>1. /\ Sound(f) /\ f.dayNav = b.dayNav /\ f.dayDate = b.dayDate
        /\ \A c \in Assets \ {a} : f.pos[c].qty = b.pos[c].qty
        /\ f.pos[a].qty = b.pos[a].qty - qty
    BY <1>2, SellSound
  <2> QED
    BY <1>0, <2>1
<1>3. ASSUME NEW qty \in Nat \ {0}, NEW price \in Nat \ {0},
             f = ApplyFill(b, a, "buy", qty, price),
             ~ AddingBlocked(s, a), Bounded(s, a, qty * price)
      PROVE  /\ Sound(f) /\ f.dayNav = b.dayNav /\ f.dayDate = b.dayDate
             /\ \A c \in Assets : f.pos[c].qty > b.pos[c].qty =>
                   c = a /\ Limits(s, a, b.cash - f.cash)
  <2> HIDE DEF f
  <2>1. PICK n \in Nat : n = qty * price
    OBVIOUS
  <2>2. /\ s.nav \in Nat /\ s.cash \in Nat /\ s.cash <= s.nav
        /\ b.cash >= 0 => s.cash = b.cash
        /\ b.cash \in Int /\ (ReservePct >= FeePct => b.cash >= 0)
        /\ OpenPositions(s) = Held(b)
        /\ PositionRoom(s, a) \in Int /\ GrossRoom(s) \in Int /\ CashRoom(s) \in Int
        /\ CashRoom(s) = s.cash - (s.nav * ReservePct) \div 100
    BY SnapshotFacts DEF Sound, Book
  <2> HIDE DEF s
  <2>3. Payable(b, n)
    <3>1. n <= s.cash - (s.nav * ReservePct) \div 100
      BY <1>3, <2>1, <2>2 DEF Bounded
    <3> QED
      BY <2>2, <3>1, ReserveCoversFee, Settings DEF Payable
  <2>4. Cardinality(Held(b) \cup {a}) <= MaxPositions
    <3>1. CASE a \in Held(b)
      <4>1. Held(b) \cup {a} = Held(b)
        BY <3>1
      <4> QED
        BY <4>1 DEF Sound
    <3>2. CASE a \notin Held(b)
      <4>1. Cardinality(Held(b) \cup {a}) = Cardinality(Held(b)) + 1
        BY <3>2, HeldFinite, FS_AddElement
      <4>2. ~ (Cardinality(Held(b)) >= MaxPositions)
        BY <1>3, <2>2, <3>2 DEF AddingBlocked
      <4> QED
        BY <4>1, <4>2, HeldFinite, Settings
    <3> QED
      BY <3>1, <3>2
  <2>5. /\ Sound(f) /\ f.dayNav = b.dayNav /\ f.dayDate = b.dayDate
        /\ f.cash = b.cash - n - FeeOf(n)
        /\ \A c \in Assets \ {a} : f.pos[c].qty = b.pos[c].qty
    <3>1. Payable(b, qty * price)
      BY <2>1, <2>3
    <3>2. /\ Sound(f) /\ f.dayNav = b.dayNav /\ f.dayDate = b.dayDate
          /\ f.cash = b.cash - qty * price - FeeOf(qty * price)
          /\ \A c \in Assets \ {a} : f.pos[c].qty = b.pos[c].qty
      BY <1>3, <2>4, <3>1, BuySound
    <3> QED
      BY <2>1, <3>2
  <2>6. b.cash - f.cash = n + FeeOf(n)
    BY <2>2, <2>5, FeeBounds
  <2>7. Limits(s, a, n + FeeOf(n))
    <3>1. ~ DailyLossReached(s) /\ ~ DrawdownReached(s)
      BY <1>3 DEF AddingBlocked
    <3>2. n <= PositionRoom(s, a) /\ n <= GrossRoom(s) /\ n <= CashRoom(s)
      BY <1>3, <2>1 DEF Bounded
    <3> QED
      BY <2>2, <3>1, <3>2, RoomCoversFee DEF Limits
  <2> QED
    BY <1>0, <2>5, <2>6, <2>7
<1>4. \/ f = b
      \/ \E qty, price \in Nat \ {0} :
            f = ApplyFill(b, a, "sell", qty, price) /\ qty <= b.pos[a].qty
      \/ \E qty, price \in Nat \ {0} :
            /\ f = ApplyFill(b, a, "buy", qty, price)
            /\ ~ AddingBlocked(s, a) /\ Bounded(s, a, qty * price)
  BY FillOutcome
<1> HIDE DEF f, s
<1> QED
  BY <1>1, <1>2, <1>3, <1>4 DEF f, s

-----------------------------------------------------------------------------
(***************************************************************************)
(* The steps.                                                              *)
(***************************************************************************)

(* The book a cycle leaves, at each of the points where it may end. *)
LEMMA CycleBooks ==
    ASSUME BookInv, SnapshotTaken, NEW a \in Assets, NEW last \in Prices,
           NEW signal \in Signals, NEW mid \in Mids(last)
    PROVE  LET r == RollDay(book, date)
               f == PaperFill(r, a, Decided(r, a, last, signal), mid)
               m == Mark(f, a, last)
           IN  /\ Sound(f) /\ f.dayDate = date
               /\ book.dayDate = date => f.dayNav = book.dayNav
               /\ Sound(m) /\ m.dayDate = date
               /\ book.dayDate = date => m.dayNav = book.dayNav
<1> DEFINE r == RollDay(book, date)
           f == PaperFill(r, a, Decided(r, a, last, signal), mid)
           m == Mark(f, a, last)
<1>1. /\ Sound(r) /\ Nav(r) > 0
      /\ r.dayDate = date /\ (book.dayDate = date => r.dayNav = book.dayNav)
  BY RollDaySound DEF BookInv, DaysInOrder, SnapshotTaken
<1> HIDE DEF r
<1>2. Sound(f) /\ f.dayNav = r.dayNav /\ f.dayDate = r.dayDate
  BY <1>1, FilledSound
<1>3. last \in Nat \ {0}
  BY FillPrices
<1> HIDE DEF f
<1>4. Sound(m) /\ m.dayNav = f.dayNav /\ m.dayDate = f.dayDate
  BY <1>2, <1>3, MarkSound
<1> HIDE DEF m
<1> QED
  BY <1>1, <1>2, <1>4 DEF m, f, r

(* The end of a cycle, with its checkpoint or before it. *)
LEMMA FinishStep ==
    ASSUME BookInv, NEW b, Sound(b), b.dayDate = date,
           book.dayDate = date => b.dayNav = book.dayNav,
           Finish(b)
    PROVE  BookInv'
<1>1. /\ book' = b /\ date' = date
      /\ \/ saved' = saved /\ anchor' = anchor
         \/ /\ saved' = b
            /\ anchor' = IF anchor.day = date THEN anchor ELSE [day |-> date, nav |-> b.dayNav]
  BY DEF Finish, Checkpoint, EndsEarly
<1>2. Sound(book)' /\ Sound(saved)'
  <2>1. Sound(book')
    BY <1>1
  <2>2. Sound(saved')
    BY <1>1 DEF BookInv
  <2> QED
    BY <2>1, <2>2 DEF Sound, PositionSound, Held
<1>3. /\ saved.dayDate \in Int /\ book.dayDate \in Int
  BY DEF BookInv, Sound, Book
<1>4. DaysInOrder'
  BY <1>1, <1>3 DEF BookInv, DaysInOrder, Undated
<1>5. saved.dayDate = date => b.dayNav = saved.dayNav
  BY <1>3 DEF BookInv, DaysInOrder, AnchorKept
<1>6. AnchorKept'
  BY <1>1, <1>5 DEF BookInv, AnchorKept
<1> QED
  BY <1>2, <1>4, <1>6 DEF BookInv

(* The initial book is sound, with a checkpoint that equals it. *)
LEMMA InitialBook == BookInit => BookInv
<1> SUFFICES ASSUME BookInit PROVE BookInv
  OBVIOUS
<1>1. /\ book = NewBook /\ saved = NewBook /\ date = 0
      /\ anchor.day = Undated /\ anchor.nav = StartingNav
  BY DEF BookInit
<1>2. NewBook \in Book
  <2>1. Flat \in Position
    BY DEF Flat, Position
  <2> QED
    BY <2>1, Settings DEF NewBook, Book, Undated
<1>3. NewBook.cash = StartingNav /\ NewBook.dayDate = Undated /\ NewBook.dayNav = StartingNav
      /\ \A a \in Assets : NewBook.pos[a] = Flat /\ NewBook.pos[a].qty = 0
  BY DEF NewBook, Flat
<1>4. Held(NewBook) = {}
  BY <1>3 DEF Held
<1>5. Sound(NewBook)
  BY <1>2, <1>3, <1>4, Settings, FS_EmptySet DEF Sound, PositionSound
<1> QED
  BY <1>1, <1>3, <1>5 DEF BookInv, DaysInOrder, AnchorKept, Undated

LEMMA BookStep == BookInv /\ [BookNext]_bookVars => BookInv'
<1> SUFFICES ASSUME BookInv, [BookNext]_bookVars PROVE BookInv'
  OBVIOUS
<1>1. ASSUME NEW a \in Assets, Cycle(a) PROVE BookInv'
  <2>1. PICK last \in Prices, signal \in Signals : \E mid \in Mids(last) :
           LET s      == RollDay(book, date)
               filled == PaperFill(s, a, Decided(s, a, last, signal), mid)
           IN  Finish(Mark(filled, a, last)) \/ EndsEarly(filled)
    BY <1>1 DEF Cycle
  <2>2. PICK mid \in Mids(last) :
           LET s      == RollDay(book, date)
               filled == PaperFill(s, a, Decided(s, a, last, signal), mid)
           IN  Finish(Mark(filled, a, last)) \/ EndsEarly(filled)
    BY <2>1
  <2> DEFINE r == RollDay(book, date)
             f == PaperFill(r, a, Decided(r, a, last, signal), mid)
             m == Mark(f, a, last)
  <2>3. /\ Sound(f) /\ f.dayDate = date /\ (book.dayDate = date => f.dayNav = book.dayNav)
        /\ Sound(m) /\ m.dayDate = date /\ (book.dayDate = date => m.dayNav = book.dayNav)
    BY <1>1, CycleBooks DEF Cycle
  <2>4. Finish(m) \/ Finish(f)
    BY <2>2 DEF Finish
  <2> HIDE DEF m, f
  <2> QED
    BY <2>3, <2>4, FinishStep
<1>2. CASE RejectedTick
  <2> DEFINE r == RollDay(book, date)
  <2>1. Sound(r) /\ r.dayDate = date /\ (book.dayDate = date => r.dayNav = book.dayNav)
    BY RollDaySound DEF BookInv, DaysInOrder
  <2>2. Finish(r)
    BY <1>2 DEF RejectedTick
  <2> HIDE DEF r
  <2> QED
    BY <2>1, <2>2, FinishStep
<1>3. CASE Midnight
  <2>1. book' = book /\ saved' = saved /\ date' = date + 1 /\ anchor' = anchor
    BY <1>3 DEF Midnight
  <2>2. book.dayDate \in Int
    BY DEF BookInv, Sound, Book
  <2> QED
    BY <2>1, <2>2
    DEF BookInv, DaysInOrder, AnchorKept, Sound, PositionSound, Held
<1>4. CASE Crash \/ UNCHANGED bookVars
  <2>1. book' = book /\ saved' = saved /\ date' = date /\ anchor' = anchor
    BY <1>4 DEF Crash, bookVars
  <2> QED
    BY <2>1 DEF BookInv, DaysInOrder, AnchorKept, Sound, PositionSound, Held
<1>5. CASE Restart
  <2>1. book' = saved /\ saved' = saved /\ date' = date /\ anchor' = anchor
    BY <1>5 DEF Restart, Restored
  <2>2. saved.dayDate \in Int /\ book.dayDate \in Int
    BY DEF BookInv, Sound, Book
  <2> QED
    BY <2>1, <2>2 DEF BookInv, DaysInOrder, AnchorKept, Sound, PositionSound, Held, Undated
<1> QED
  BY <1>1, <1>2, <1>3, <1>4, <1>5 DEF BookNext

-----------------------------------------------------------------------------
(***************************************************************************)
(* The theorems.                                                           *)
(***************************************************************************)

(* Through entries, exits, rejected ticks, midnights, cycles that end      *)
(* before their checkpoint, crashes and restarts, the book in memory and   *)
(* the book of the checkpoint are sound.                                   *)
THEOREM BookInvariance == BookSpec => []BookInv
  BY InitialBook, BookStep, PTL DEF BookSpec

(* Whatever the prices, the cash of a book whose reserve is no smaller     *)
(* than the fee is never overdrawn: what the engine keeps back pays for    *)
(* what sizing leaves out.  No book keeps a trace of a closed position,    *)
(* whatever its reserve (apply_fill, evaluate).                            *)
THEOREM BookStaysSolvent == BookSpec => []BookSolvent
<1>1. BookInv => BookSolvent
  BY DEF BookInv, Sound, PositionSound, BookSolvent, Held
<1> QED
  BY <1>1, BookInvariance, PTL

(* From the first checkpoint of a day on, the NAV the day is measured from *)
(* stands, for the process and for every process that resumes from a       *)
(* checkpoint of the day (roll_day, from_state).                           *)
THEOREM AnchorAlwaysStands == BookSpec => []AnchorStands
<1>1. ASSUME BookInv PROVE AnchorStands
  <2>1. saved.dayDate \in Int /\ book.dayDate \in Int
    BY <1>1 DEF BookInv, Sound, Book
  <2> QED
    BY <1>1, <2>1 DEF BookInv, DaysInOrder, AnchorKept, AnchorStands
<1> QED
  BY <1>1, BookInvariance, PTL

(* The least of three numbers. *)
LEMMA LeastOfThree ==
    ASSUME NEW x \in Nat, NEW y \in Nat, NEW z \in Nat
    PROVE  LET m == Min({x, y, z}) IN m \in Nat /\ m <= x /\ m <= y /\ m <= z
<1>1. \E m \in {x, y, z} : \A n \in {x, y, z} : m <= n
  OBVIOUS
<1> QED
  BY <1>1 DEF Min

(* plan, for an order that may only reduce: a notional of at least w, where *)
(* w is no more than what is held is worth, sells the lots that w buys.    *)
LEMMA ShareSold ==
    ASSUME NEW held \in Nat \ {0}, NEW price \in Nat \ {0}, NEW k \in Nat, NEW w \in Nat,
           w <= k, w <= held * price
    PROVE  LET qty == AtMost(k \div price, held) IN
           /\ qty \in Nat /\ qty <= held
           /\ w \div price \in Nat /\ w \div price <= qty
<1> DEFINE d == k \div price
           e == w \div price
           qty == AtMost(d, held)
<1>1. d \in Nat /\ k < d * price + price /\ e \in Nat /\ e * price <= w
  BY DivisionBounds
<1> HIDE DEF d, e
<1>2. qty \in {d, held} /\ qty \in Nat /\ qty <= held
  BY <1>1 DEF AtMost
<1>3. e <= d
  <2>1. ASSUME d + 1 <= e PROVE FALSE
    <3>1. (d + 1) * price <= e * price /\ (d + 1) * price = d * price + price
      BY <1>1, <2>1, ProductGrows
    <3> QED
      BY <1>1, <3>1
  <2> QED
    BY <1>1, <2>1
<1>4. e <= held
  <2>1. ASSUME held + 1 <= e PROVE FALSE
    <3>1. (held + 1) * price <= e * price /\ (held + 1) * price = held * price + price
      BY <1>1, <2>1, ProductGrows
    <3> QED
      BY <1>1, <3>1
  <2> QED
    BY <1>1, <2>1
<1> QED
  BY <1>2, <1>1, <1>3, <1>4 DEF d, e

(* What StopLossGetsOut says of one exit. *)
GetsOut(b, a, last, mid, left) ==
    LET held   == b.pos[a].qty
        price  == FillPrice("sell", mid)
        lowest == Min({Below(last, SlipPct), b.marks[a], price})
        share  == (held * lowest) \div price
    IN  0 <= left /\ (Plannable(share, price) => held - left >= share)

(* _exit_result, evaluate, apply: from a sound book the order of a         *)
(* stop-loss is of the position's size, at the lower of the sizing price   *)
(* and the mark, and what it leaves is what its notional did not buy.      *)
LEMMA ExitGetsOut ==
    ASSUME NEW b, Sound(b), Nav(b) > 0, NEW a \in Held(b), NEW last \in Prices,
           StopLoss(b.pos[a], last), NEW mid \in Mids(last),
           NEW signal \in Signals \ {"blocked"}
    PROVE  GetsOut(b, a, last, mid, PaperFill(b, a, Decided(b, a, last, signal), mid).pos[a].qty)
<1> DEFINE held == b.pos[a].qty
           below == Below(last, SlipPct)
           mark == b.marks[a]
           price == FillPrice("sell", mid)
           worth == held * Min({below, mark, price})
           share == worth \div price
           k == AtMost(held * below, held * mark)
           order == Decided(b, a, last, signal)
           qty == PlannedQty(b, a, order, price)
           left == PaperFill(b, a, order, mid).pos[a].qty
<1>1. a \in Assets /\ held \in Nat \ {0} /\ mark \in Nat
  <2>1. a \in Assets /\ held > 0
    BY DEF Held
  <2> QED
    BY <2>1 DEF Sound, Book, Position
<1>2. below \in Nat /\ price \in Nat \ {0}
  <2>1. last \in Nat
    BY FillPrices
  <2> QED
    BY <2>1, FillPrices, BelowGrows
<1>3. order = Evaluate(Snapshot(b), a, "sell", held * below, TRUE)
  <2>1. IsExit(b.pos[a], last, signal)
    BY <1>1 DEF IsExit, Fired
  <2> QED
    BY <2>1 DEF Decided, ExitNotional
<1>4. Snapshot(b).exposure[a] = held * mark
  BY <1>1, SnapshotFacts
<1>5. held * mark > 0
  <2>1. mark > 0
    BY <1>1 DEF Sound, PositionSound
  <2> HIDE DEF held, mark
  <2> QED
    BY <1>1, <2>1
<1>6. order = Order("sell", k, TRUE)
  BY <1>3, <1>4, <1>5 DEF Evaluate, Reducing
<1> HIDE DEF held, below, mark, price, order
<1>7. k \in Nat /\ worth \in Nat /\ worth <= k /\ worth <= held * price
  <2> DEFINE least == Min({below, mark, price})
  <2>1. least \in Nat /\ least <= below /\ least <= mark /\ least <= price
    BY <1>1, <1>2, LeastOfThree
  <2> HIDE DEF least
  <2>2. held \in Nat /\ price \in Nat
    BY <1>1, <1>2
  <2>3. /\ held * least <= held * below /\ held * least <= held * mark
        /\ held * least <= held * price
        /\ held * least \in Nat /\ held * below \in Nat /\ held * mark \in Nat
    BY <1>1, <1>2, <2>1, <2>2, ProductGrows
  <2> QED
    BY <2>3 DEF AtMost, least
<1> HIDE DEF k, worth
<1>8. ASSUME 0 <= left, Plannable(share, price) => held - left >= share
      PROVE  GetsOut(b, a, last, mid, left)
  <2> HIDE DEF left
  <2> QED
    BY <1>8 DEF GetsOut, worth, held, below, mark, price
<1> DEFINE sells == AtMost(k \div price, held)
<1>9. /\ sells \in Nat /\ sells <= held
      /\ share \in Nat /\ share <= sells
  BY <1>1, <1>2, <1>7, ShareSold
<1> HIDE DEF share, sells
<1>10. Plannable(share, price) => Plannable(sells, price)
  <2>1. share * price <= sells * price /\ share * price \in Nat /\ sells * price \in Nat
    BY <1>2, <1>9, ProductGrows
  <2> QED
    BY <1>9, <2>1, Settings DEF Plannable
<1>11. ASSUME k = 0 PROVE GetsOut(b, a, last, mid, left)
  <2>1. order = NoOrder
    BY <1>6, <1>11 DEF Order
  <2>2. left = held
    BY <2>1 DEF PaperFill, held
  <2>3. sells = 0
    <3>1. 0 \div price = 0
      BY <1>2
    <3> QED
      BY <1>1, <1>11, <3>1 DEF sells, AtMost
  <2>4. ~ Plannable(share, price)
    BY <1>10, <2>3 DEF Plannable
  <2> HIDE DEF left
  <2>5. 0 <= left
    BY <1>1, <2>2
  <2> QED
    BY <1>8, <2>4, <2>5
<1>12. ASSUME k # 0 PROVE GetsOut(b, a, last, mid, left)
  <2>1. order = [side |-> "sell", notional |-> k, reduceOnly |-> TRUE]
    BY <1>6, <1>7, <1>12 DEF Order
  <2>2. /\ order # NoOrder /\ order.side = "sell" /\ order.notional = k /\ order.reduceOnly
    BY <2>1 DEF NoOrder
  <2>3. qty = sells
    BY <2>2 DEF PlannedQty, held, sells
  <2> HIDE DEF qty
  <2>4. CASE Plannable(sells, price)
    <3>1. PaperFill(b, a, order, mid) = ApplyFill(b, a, "sell", sells, price)
      BY <1>9, <2>2, <2>3, <2>4 DEF PaperFill, qty, price, held
    <3>2. sells \in Nat \ {0}
      BY <1>9, <2>4 DEF Plannable
    <3>3. left = held - sells
      BY <1>1, <1>2, <1>9, <3>1, <3>2, SellSound DEF held
    <3> HIDE DEF left
    <3>4. 0 <= left /\ held - left >= share
      BY <1>1, <1>9, <3>3
    <3> QED
      BY <1>8, <3>4
  <2>5. CASE ~ Plannable(sells, price)
    <3>1. left = held
      BY <2>2, <2>3, <2>5 DEF PaperFill, qty, price, held
    <3> HIDE DEF left
    <3>2. 0 <= left
      BY <1>1, <3>1
    <3> QED
      BY <1>8, <1>10, <2>5, <3>2
  <2> QED
    BY <2>4, <2>5
<1> QED
  BY <1>11, <1>12 DEF order, left

(* A stop-loss that fires, in whatever reachable book and wherever the     *)
(* mid is, sells the share of the position its three prices allow, on      *)
(* every signal but one that blocks every order; with the mid no higher    *)
(* than the last trade and the last trade no higher than the mark, that is *)
(* the whole position (_exit_result, evaluate, apply).                     *)
THEOREM StopLossAlwaysGetsOut == BookSpec => []StopLossGetsOut
<1>1. ASSUME BookInv PROVE StopLossGetsOut
  <2> SUFFICES ASSUME NEW a \in Held(book), NEW last \in Prices, SnapshotTaken,
                      StopLoss(book.pos[a], last), NEW mid \in Mids(last),
                      NEW signal \in Signals \ {"blocked"}
               PROVE  GetsOut(RollDay(book, date), a, last, mid,
                          PaperFill(RollDay(book, date), a,
                             Decided(RollDay(book, date), a, last, signal), mid).pos[a].qty)
    BY DEF StopLossGetsOut, GetsOut
  <2> DEFINE r == RollDay(book, date)
  <2>1. Sound(r) /\ Nav(r) > 0 /\ r.pos = book.pos
    BY <1>1, RollDaySound DEF BookInv, DaysInOrder, SnapshotTaken
  <2> HIDE DEF r
  <2>2. a \in Held(r) /\ StopLoss(r.pos[a], last)
    BY <2>1 DEF Held
  <2>3. GetsOut(r, a, last, mid, PaperFill(r, a, Decided(r, a, last, signal), mid).pos[a].qty)
    BY <2>1, <2>2, ExitGetsOut
  <2> QED
    BY <2>3 DEF r
<1> QED
  BY <1>1, BookInvariance, PTL

(* What EntriesWithinLimits says of one step. *)
EntryStep ==
    LET s     == Snapshot(RollDay(book, date))
        spent == book.cash - book'.cash
    IN  \A a \in Assets :
           (running' /\ running /\ book'.pos[a].qty > book.pos[a].qty) =>
              /\ ~ DailyLossReached(s) /\ ~ DrawdownReached(s)
              /\ spent * 100 <= (100 + FeePct) * PositionRoom(s, a)
              /\ spent * 100 <= (100 + FeePct) * GrossRoom(s)
              /\ spent * 100 <= (100 + FeePct) * CashRoom(s)
              /\ Cardinality(Held(book')) <= MaxPositions

LEMMA EntryLimits == BookInv /\ BookInv' /\ [BookNext]_bookVars => EntryStep
<1> SUFFICES ASSUME BookInv, BookInv', [BookNext]_bookVars,
                    NEW c \in Assets, running', running,
                    book'.pos[c].qty > book.pos[c].qty
             PROVE  /\ Limits(Snapshot(RollDay(book, date)), c, book.cash - book'.cash)
                    /\ Cardinality(Held(book')) <= MaxPositions
  BY DEF EntryStep, Limits
<1> DEFINE r == RollDay(book, date)
<1>1. Cardinality(Held(book')) <= MaxPositions
  BY DEF BookInv, Sound, Held
<1>2. Sound(r) /\ r.pos = book.pos /\ r.cash = book.cash /\ Nav(r) = Nav(book)
  BY RollDaySound DEF BookInv, DaysInOrder
<1>3. book.pos[c].qty \in Nat
  BY DEF BookInv, Sound, Book, Position
<1>4. ASSUME NEW a \in Assets, Cycle(a)
      PROVE  Limits(Snapshot(r), c, book.cash - book'.cash)
  <2>1. PICK last \in Prices, signal \in Signals : \E mid \in Mids(last) :
           LET filled == PaperFill(r, a, Decided(r, a, last, signal), mid)
           IN  Finish(Mark(filled, a, last)) \/ EndsEarly(filled)
    BY <1>4 DEF Cycle
  <2>2. PICK mid \in Mids(last) :
           LET filled == PaperFill(r, a, Decided(r, a, last, signal), mid)
           IN  Finish(Mark(filled, a, last)) \/ EndsEarly(filled)
    BY <2>1
  <2> DEFINE f == PaperFill(r, a, Decided(r, a, last, signal), mid)
             m == Mark(f, a, last)
  <2> HIDE DEF r
  <2>3. /\ Sound(f)
        /\ \A d \in Assets : f.pos[d].qty > r.pos[d].qty =>
              d = a /\ Limits(Snapshot(r), a, r.cash - f.cash)
    <3>1. Nav(r) > 0
      BY <1>2, <1>4 DEF Cycle, SnapshotTaken
    <3> QED
      BY <1>2, <3>1, FilledSound
  <2>4. book' \in {m, f}
    BY <2>2 DEF Finish, Checkpoint, EndsEarly
  <2> HIDE DEF f
  <2>5. m.cash = f.cash /\ \A d \in Assets : m.pos[d].qty = f.pos[d].qty
    <3>1. last \in Nat \ {0}
      BY FillPrices
    <3> QED
      BY <2>3, <3>1, MarkSound
  <2> HIDE DEF m
  <2>6. book'.cash = f.cash /\ book'.pos[c].qty = f.pos[c].qty
    BY <2>4, <2>5
  <2> QED
    BY <1>2, <2>3, <2>6
<1>5. CASE RejectedTick
  <2>1. book' = r
    BY <1>5 DEF RejectedTick, Finish, Checkpoint, EndsEarly
  <2> HIDE DEF r
  <2> QED
    BY <1>2, <1>3, <2>1
<1>6. CASE Midnight \/ UNCHANGED bookVars
  BY <1>3, <1>6 DEF Midnight, bookVars
<1>7. CASE Crash \/ Restart
  BY <1>7 DEF Crash, Restart
<1> QED
  BY <1>1, <1>4, <1>5, <1>6, <1>7 DEF BookNext

(* An entry is within the limits of the snapshot it was judged by, fee     *)
(* included, and none happens past the daily loss or the drawdown.         *)
THEOREM EntriesRespectLimits == BookSpec => EntriesWithinLimits
<1>1. BookInv /\ BookInv' /\ [BookNext]_bookVars => [EntryStep]_bookVars
  BY EntryLimits
<1> QED
  BY <1>1, BookInvariance, PTL DEF BookSpec, EntriesWithinLimits, EntryStep

=============================================================================
