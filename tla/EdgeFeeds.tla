------------------------------ MODULE EdgeFeeds ------------------------------
(* The two research feeds of the service: Binance liquidations with their     *)
(* rolling windows (market/liquidations.py) and the second venue's book       *)
(* ticker (market/book_ticker.py). Each has a collector task that the service *)
(* starts (service.py) and that runs the loop of Streaming; the trading cycle *)
(* reads both through runtime._edge_features, in the same event loop, at any  *)
(* moment between two messages.                                               *)
(*                                                                            *)
(* Time is in ticks. An event carries the exchange's time, which may be ahead *)
(* of the local clock by a fixed skew, and arrives later, in order; what is   *)
(* on the wire when a connection fails is lost. One asset is modelled, the    *)
(* aggregator keeps assets apart. A z-score is represented by the totals it   *)
(* is computed from.                                                          *)
EXTENDS Streaming, Sequences, SequencesExt, FiniteSetsExt

CONSTANTS
  Configurations, \* sets of enabled feeds: binance_liq_enabled, book_ticker_enabled
  Sides,          \* LiquidationSide
  Window,         \* window_seconds
  Baseline,       \* baseline_seconds
  CountCap,       \* count_cap
  LiqMaxAge,      \* binance_liq_max_age_seconds; 0 disables the check
  TickerMaxAge,   \* book_ticker_max_age_seconds
  Never, Missing, \* no moment, and no value
  Notional,       \* what one liquidation is worth
  MaxSkew,        \* bound: how far the exchange's clock may be ahead
  MaxClock,       \* bound: ticks
  MaxEvents,      \* bound: liquidations in a behaviour
  MaxWire         \* bound: messages on a wire

ASSUME EdgeAssumption ==
  /\ {Window, Baseline, CountCap, TickerMaxAge, Notional} \subseteq Nat \ {0}
  /\ {LiqMaxAge, MaxSkew, MaxClock, MaxEvents, MaxWire} \subseteq Nat
  /\ Configurations \subseteq SUBSET {"liq", "ticker"}
  /\ Never \notin Nat

VARIABLES
  now,        \* the local clock
  skew,       \* exchange clock minus local clock, fixed
  liq,        \* the liquidation collector's stream
  liqWire,    \* events sent and not yet read, and how many were sent
  sides,      \* LiquidationAggregator._sides of the asset
  lastMessage,\* _last_message_at, or Never
  ticker,     \* the ticker collector's stream
  tickerWire, \* times of the tickers sent and not yet read
  latest,     \* BookTickerProvider._latest of the asset: its time, or Never
  counted,    \* history: events ingested per side and window
  lastEvent,  \* history: time of the last event ingested per side, or Never
  failures,   \* history: failures of a feed since its last item
  endedAt     \* history: when a feed gave up, or Never

liqVars == <<liq, liqWire, sides, lastMessage, counted, lastEvent>>
tickerVars == <<ticker, tickerWire, latest>>
outageVars == <<failures, endedAt>>
edgeVars == <<now, skew, liqVars, tickerVars, outageVars>>

Feeds == {"liq", "ticker"}

Times == 0..(MaxClock + MaxSkew)

(* _align                                                                     *)
Align(t) == t - (t % Window)

Windows == {Align(t) : t \in Times}

-----------------------------------------------------------------------------
(* _SideBuckets: closed totals, and the bucket in progress.                   *)

EmptySide == [buckets |-> <<>>, start |-> Never, sum |-> 0, count |-> 0]

(* prune: totals are dropped from the front while they are too old. A cutoff  *)
(* before the epoch prunes nothing, hence the comparison without subtraction. *)
Prune(buckets, t) ==
  LET kept == {i \in 1..Len(buckets) : buckets[i].start + Baseline >= t}
  IN  IF kept = {} THEN <<>> ELSE SubSeq(buckets, Min(kept), Len(buckets))

(* The bucket in progress becomes history.                                    *)
Closed(side) == Append(side.buckets, [start |-> side.start, sum |-> side.sum])

(* ingest: _SideBuckets.add, then prune, by the event's own time.             *)
Ingested(side, t) ==
  LET opens == side.start # Never /\ side.start # Align(t)
      sum   == IF opens THEN 0 ELSE side.sum
      count == IF opens THEN 0 ELSE side.count
  IN  [buckets |-> Prune(IF opens THEN Closed(side) ELSE side.buckets, t),
       start   |-> Align(t),
       sum     |-> sum + Notional,
       count   |-> count + 1]

(* LiquidationAggregator._current: a bucket older than its window is closed   *)
(* by the call that reads it.                                                 *)
Aged(side) == side.start # Never /\ now >= side.start + Window

(* Mutation: an aged bucket is dropped instead of becoming history.           *)
CurrentDropped(side) ==
  IF ~ Aged(side) THEN side ELSE [EmptySide EXCEPT !.buckets = side.buckets]

(* Mutation: the bucket in progress is reported until the next event.         *)
CurrentStale(side) == side

Current(side) ==
  IF ~ Aged(side)
    THEN side
    ELSE [EmptySide EXCEPT !.buckets =
            IF side.sum > 0 THEN Prune(Closed(side), now) ELSE side.buckets]

-----------------------------------------------------------------------------
(* The providers, as the trading cycle reads them.                            *)

(* BinanceForceOrderProvider.snapshot: its early returns.                     *)
LiqMissing ==
  \/ lastMessage = Never
  \/ LiqMaxAge > 0 /\ now > lastMessage + LiqMaxAge

(* LiquidationAggregator.snapshot of one side, brought up to date first. The  *)
(* z-score is that of the sum against the closed totals.                      *)
Reported(side) ==
  LET current == Current(side)
  IN  [sum   |-> current.sum,
       count |-> Min({current.count, CountCap}),
       past  |-> [i \in DOMAIN current.buckets |-> current.buckets[i].sum]]

(* Mutation: a cached ticker is served whatever its age.                      *)
LatestAnyAge == IF latest = Never THEN Missing ELSE latest

(* BookTickerProvider.latest                                                  *)
Latest == IF latest = Never \/ now > latest + TickerMaxAge THEN Missing ELSE latest

-----------------------------------------------------------------------------
(* service.run starts a collector for each feed that is enabled.              *)
Collector(feed, enabled) == IF feed \in enabled THEN Opened ELSE Disabled

EdgeInit ==
  /\ now = 0
  /\ skew \in 0..MaxSkew
  /\ \E enabled \in Configurations :
       /\ liq = Collector("liq", enabled)
       /\ ticker = Collector("ticker", enabled)
  /\ liqWire = [queue |-> <<>>, sent |-> 0] /\ tickerWire = <<>>
  /\ sides = [s \in Sides |-> EmptySide]
  /\ lastMessage = Never /\ latest = Never
  /\ counted = [s \in Sides |-> [w \in Windows |-> 0]]
  /\ lastEvent = [s \in Sides |-> Never]
  /\ failures = [f \in Feeds |-> 0]
  /\ endedAt = [f \in Feeds |-> Never]

(* The local clock.                                                           *)
Pass ==
  /\ now < MaxClock
  /\ now' = now + 1
  /\ UNCHANGED <<skew, liqVars, tickerVars, outageVars>>

(* parse_force_order_message and parse_book_ticker: what is kept of a payload *)
(* is stamped with the exchange's time.                                       *)
LiqEvent(side) == [side |-> side, at |-> now + skew]

TickerTime == now + skew

(* A liquidation on the exchange, pushed to an open connection.               *)
ForceOrder(side) ==
  /\ liq.link = "open"
  /\ liqWire.sent < MaxEvents /\ Len(liqWire.queue) < MaxWire
  /\ liqWire' = [queue |-> Append(liqWire.queue, LiqEvent(side)),
                 sent  |-> liqWire.sent + 1]
  /\ UNCHANGED <<now, skew, liq, sides, lastMessage, counted, lastEvent,
                 tickerVars, outageVars>>

(* collect reads an event and ingests it. A message that holds no event for   *)
(* the asset, or no JSON, is skipped and changes nothing.                     *)
LiqMessage ==
  /\ liq.link = "open" /\ liqWire.queue # <<>>
  /\ LET e == Head(liqWire.queue)
     IN  /\ sides' = [sides EXCEPT ![e.side] = Ingested(@, e.at)]
         /\ counted' = [counted EXCEPT ![e.side][Align(e.at)] = @ + 1]
         /\ lastEvent' = [lastEvent EXCEPT ![e.side] = e.at]
  /\ liqWire' = [liqWire EXCEPT !.queue = Tail(@)]
  /\ lastMessage' = now
  /\ liq' = Yielded(liq)
  /\ failures' = [failures EXCEPT !["liq"] = 0]
  /\ UNCHANGED <<now, skew, tickerVars, endedAt>>

(* The book of the second venue changes.                                      *)
BookChange ==
  /\ ticker.link = "open" /\ Len(tickerWire) < MaxWire
  /\ tickerWire' = Append(tickerWire, TickerTime)
  /\ UNCHANGED <<now, skew, liqVars, ticker, latest, outageVars>>

(* collect keeps the ticker it reads.                                         *)
TickerMessage ==
  /\ ticker.link = "open" /\ tickerWire # <<>>
  /\ latest' = Head(tickerWire)
  /\ tickerWire' = Tail(tickerWire)
  /\ ticker' = Yielded(ticker)
  /\ failures' = [failures EXCEPT !["ticker"] = 0]
  /\ UNCHANGED <<now, skew, liqVars, endedAt>>

(* A failure is counted, and the moment at which the loop gave up is kept.    *)
Outage(feed, stream) ==
  /\ failures' = [failures EXCEPT ![feed] = @ + 1]
  /\ endedAt' = IF stream.link = "exhausted" THEN [endedAt EXCEPT ![feed] = now] ELSE endedAt

(* The connection cannot be opened, fails, is closed or, where silence counts *)
(* as failure, is silent for too long. The service logs FeedExhausted and     *)
(* goes on: the collector's task is over.                                     *)
LiqFails ==
  /\ liq.link = "open"
  /\ liq' = Failed(liq)
  /\ liqWire' = [liqWire EXCEPT !.queue = <<>>]
  /\ Outage("liq", liq')
  /\ UNCHANGED <<now, skew, sides, lastMessage, counted, lastEvent, tickerVars>>

LiqReopens ==
  /\ liq.link = "backoff"
  /\ liq' = Reopened(liq)
  /\ UNCHANGED <<now, skew, liqWire, sides, lastMessage, counted, lastEvent, tickerVars,
                 outageVars>>

TickerFails ==
  /\ ticker.link = "open"
  /\ ticker' = Failed(ticker)
  /\ tickerWire' = <<>>
  /\ Outage("ticker", ticker')
  /\ UNCHANGED <<now, skew, liqVars, latest>>

TickerReopens ==
  /\ ticker.link = "backoff"
  /\ ticker' = Reopened(ticker)
  /\ UNCHANGED <<now, skew, liqVars, tickerWire, latest, outageVars>>

(* runtime._edge_features: the cycle reads both providers. Reading brings the *)
(* buckets of both sides up to date, unless the snapshot is refused first.    *)
EdgeFeatures ==
  /\ liq.link # "off" /\ ~ LiqMissing
  /\ sides' = [s \in Sides |-> Current(sides[s])]
  /\ UNCHANGED <<now, skew, liq, liqWire, lastMessage, counted, lastEvent, tickerVars,
                 outageVars>>

EdgeNext ==
  \/ Pass
  \/ \E side \in Sides : ForceOrder(side)
  \/ LiqMessage \/ LiqFails \/ LiqReopens
  \/ BookChange \/ TickerMessage \/ TickerFails \/ TickerReopens
  \/ EdgeFeatures

EdgeSpec == EdgeInit /\ [][EdgeNext]_edgeVars

-----------------------------------------------------------------------------
(* The window that is live for a side: that of the local clock, or of the     *)
(* last event when the exchange's clock has already entered the next one.     *)
LiveWindow(s, t) ==
  IF lastEvent[s] = Never THEN Align(t) ELSE Max({Align(t), Align(lastEvent[s])})

(* What the cycle is told of liquidations (_current and snapshot, which close *)
(* buckets as they read) is exactly what arrived for the live window, however *)
(* messages, reads and the clock interleave: no event of an older window is   *)
(* reported as current and none of the live window is missing.                *)
ReportExact ==
  \A s \in Sides :
    LET n == counted[s][LiveWindow(s, now)]
    IN  ~ LiqMissing => /\ Reported(sides[s]).sum = Notional * n
                        /\ Reported(sides[s]).count = Min({n, CountCap})

(* The total a side holds for a window, closed or in progress.                *)
ClosedTotal(buckets, w) ==
  LET sums == [i \in DOMAIN buckets |-> buckets[i].sum]
  IN  MapThenSumSet(LAMBDA i : sums[i], {i \in DOMAIN buckets : buckets[i].start = w})

TotalOf(side, w) ==
  ClosedTotal(side.buckets, w) + (IF side.start = w THEN side.sum ELSE 0)

(* Every liquidation that arrived and belongs to a window younger than the    *)
(* baseline is in the totals the z-score uses, once, whoever closed its       *)
(* bucket: the next event (add), or a read of the cycle (_current).           *)
BaselineExact ==
  \A s \in Sides : \A w \in Windows :
    w + Baseline >= now + skew => TotalOf(sides[s], w) = Notional * counted[s][w]

LiqMissingAfter(age) ==
  endedAt["liq"] # Never /\ now > endedAt["liq"] + age => LiqMissing

(* A feed that gave up is missing from the features once its last value is    *)
(* older than the configured age: the cycle does not trade on the remains of  *)
(* a dead feed. The ticker always has an age limit; for liquidations this     *)
(* says something of a positive binance_liq_max_age_seconds only, and what    *)
(* the default does is the subject of the next property (latest, snapshot).   *)
DeadFeedAgesOut ==
  /\ endedAt["ticker"] # Never /\ now > endedAt["ticker"] + TickerMaxAge + skew
       => Latest = Missing
  /\ LiqMaxAge > 0 => LiqMissingAfter(LiqMaxAge)

(* What market/liquidations.py says of its feed, whatever the settings: "a    *)
(* dead or exhausted feed degrades to missing edge features", here once a     *)
(* whole baseline has passed. Under the default binance_liq_max_age_seconds   *)
(* of 0 it does not: the snapshot of an exhausted feed reads as a market      *)
(* without liquidations for ever.                                             *)
DeadLiqIsMissing == LiqMissingAfter(Baseline)

(* A feed gives up only after a whole budget of reconnects failed within one  *)
(* outage: earlier outages, ended by an item, do not count.                   *)
BudgetPerOutage ==
  \A f \in Feeds : endedAt[f] # Never => failures[f] = MaxReconnects + 1

=============================================================================
