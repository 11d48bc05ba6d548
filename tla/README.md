# TraderStack: TLA+ models, checks and proofs

TraderStack is a paper-trading service. Each cycle of a single asyncio loop looks at
one symbol, produces a decision, checks it against the risk limits, lets a reviewer
look at it, submits at most one order for it through the Hummingbot API, books fills
into a portfolio and writes a hash-chained audit record. Between cycles a
reconciliation pass reads the venue's orders and trades back. Beside the loop run two
market-data feeds, a paper perpetual hedge and, as commands of their own, the
collectors of a weather-market tape.

What makes this code hard to test is not the arithmetic of a decision. It is the
order of effects on several pieces of state, some in memory, some on disk and some at
a venue that moves on its own, with a process that may die between any two of them.
That is what these modules model.

All paths below are relative to `src/src/traderstack/` of the repository.

## Inventory

| Component | State | Operations | Hard part | Module |
|---|---|---|---|---|
| Execution ledger (`execution/ledger.py`, `ledger_store.py`) | rows per order, processed fill ids; a JSON file replaced atomically | register, record_fill, transition, save, load | memory runs ahead of the file; terminal states must stay terminal | `OrderLifecycle` |
| Idempotent submitter (`execution/submitter.py`) | attempts, state and venue id of a row | submit, retry gate, resume | timeouts racing acceptances, crashes at every await | `Submission` |
| Venue reconciliation (`execution/reconcile.py`, `reconciliation.py`) | none of its own | venue_knows_order, reconcile_state, NAV comparison | two fetches describe two moments; a pass may abort half-way | `Submission`, `ExecutionPlane` |
| Paper fills (`execution/paper_fill.py`) | none of its own | apply | a second source of fills for the same order | `ExecutionPlane`, `TradingBook` |
| Portfolio book and checkpoint (`portfolio.py`, `checkpoint.py`) | cash, positions, marks, NAV peak, daily anchor | apply_fill, mark, roll_day, save, load | a second file, written after the ledger; values judged at older marks | `ExecutionPlane`, `TradingBook` |
| Risk engine, exits, planner, pipeline (`risk.py`, `exits.py`, `execution/planner.py`, `pipeline.py`) | none | evaluate, size, plan | limits judged on a snapshot; exits that must pass when entries may not | `TradingBook` |
| Service loop and health (`service.py`, `health.py`, `runtime.py`) | reconciliation block, error budget, stop event | cycles, passes, stop | what is read when, what is saved after which failure | `ServiceLoop`, `ExecutionPlane` |
| Kill switch (`killswitch.py`) | four halt channels, a cached Redis probe | refresh, engaged | the cached value when an order is sent | `ServiceLoop` |
| Meta-agent review (`agents/`) | daily budget, cache of verdicts | review, apply | a language model in the loop: late, failing, cached answers | `ServiceLoop` |
| Strategy circuit breaker (`circuit_breaker.py`) | loss count, window, trip time | record, is_tripped, reset, export, load | boundaries of cool-down and window over restarts | `StrategyBreaker` |
| Provider registry (`market/registry.py`) | breaker, quotas, cache, last good payload | call, reserve, fall back | half-open probe, quota at its limit, age of what is served | `ProviderRegistry` |
| Edge feeds (`market/streaming.py`, `liquidations.py`, `book_ticker.py`) | windows per side, last ticker, reconnect counter | messages, reconnects, reads | reads that close buckets under late messages; feeds that died | `Streaming`, `EdgeFeeds` |
| Paper perpetual hedge (`execution/paper_perp.py`, `paper_perp_feed.py`) | position, seen ids, fees, funding time (memory only) | hedge, carry, fund | the ledger is persisted and the book is not; late settlements | `PaperPerp` |
| Audit trail and anchors (`risk_audit.py`, `audit_anchor.py`) | JSONL chain, head in memory, anchors in two sinks | record, resume, publish, startup gate | torn lines, failed appends, sinks that disagree | `AuditTrail` |
| Weather tape (`polymarket/tape.py`, `collect_cli.py`, `resolve_cli.py`) | two append-only files, a print per month | collect, resolve, print | overlapping runs, kills, torn lines | `WeatherTape` |
| Kraken order book, wallet history, tip archive, other adapters, event sinks, research, acceptance tools | | I/O, offline numerics, reports | see "What is not modelled" | |

How they interact: `service._run_cycles` awaits one thing at a time. It calls
`_maybe_reconcile` and then, per symbol, `_run_symbol_safely`, which probes the kill
switch and calls `runtime.run_once` (market data through the provider registries and the
edge feeds, decision, risk, review, submitter), books a paper fill, hedges it, writes
the audit record and saves the checkpoint. The submitter calls the reconciler's
`venue_knows_order` before it retries. The health object's `reconciliation_blocked` is
set and cleared by passes and read by cycles. So the actors are the service task, the
feed tasks beside it, the operator, the venue and the network, and the crashes. The
weather commands share no state with the loop; they share files with each other.

What makes each part correct, in short: a decision has at most one venue order; a fill
is in the book exactly as often as the ledger says, once; an order is closed only when
its trades are recorded; persisted rows follow the lifecycle; blocks clear and trades
arrive; a halt stops everything a cycle would do and a failing service stops itself;
entries respect the limits and a stop-loss always gets out; a suspension survives
restarts; providers are asked no more than they allow and what is served is fresh; what
the cycle is told of a feed is what arrived; each funding settlement is credited once;
the audit chain survives restarts and the gate neither locks the service out nor lets
it append to a fork; the decision row of a weather market stands.

## Modules

**`OrderLifecycle`** is `ledger.py`: the states, `_ALLOWED_TRANSITIONS`, the row, and
the effect of `record_fill`. A row keeps its state, planned quantity, attempt count,
venue order id and recorded fills.

**`OncePerDecision`** is the abstract promise of the submitter: a decision is new,
claimed (durably recorded) or refused; only a claimed one can be placed at the venue,
once; refused ones never are.

**`Submission`** is `IdempotentSubmitter.submit` and all it calls. `pc` says at which
await the call in progress stands; every `_persist`, the venue call and the venue
question are steps, so the venue, the network and a crash come between any two.
`ledger` is the ledger in memory, `file` the one on disk, `wire` the requests in
flight, `venue` the orders accepted. `Submit*` is the code before the first await,
`Gate*` is `_gate_retry`, `Save*` are the saves (`SaveRaises`: one that fails),
`Call*` the outcomes of `_call`. `CallUncertain` stands for timeouts, 5xx answers,
transport errors and malformed bodies, which the code treats alike. Hummingbot itself
is outside the repository; `VenueAccept`, `VenueRefuse` and `RequestLost` follow from
how the code uses it. `Settled` states when the gate's question may be
answered: with `LateDelivery` at any time, without it only once no request of the
decision is on the wire, the assumption behind reading "absent" as "never placed".

**`ExecutionPlane`** extends `Submission` with the service loop: cycles that submit
and book paper fills, reconciliation passes (`FetchOrders`, `FetchTrades`, one step per
trade, `ApplyStatuses`, the two saves, `PassCompletes` or `NavDrifts`), the block, the
checkpoint and restarts. `book` counts how often each lot was applied, which is what
"exactly once" is about, and `position` is the quantity held, which decides whether a
sell is refused; `bookFile` is both as of the last checkpoint. Prices, fees and NAV are
left out, and the NAV comparison comes out either way. `paper` says whether the paper
fill simulator is wired. Two variables are history, read by no action: `refused` has the
sells the book refused after the ledger recorded them, `stranded` the lots that were in
the book and not in the ledger file when an exception ended a cycle or a pass.

**`TradingBook`** is the same book with its money: cash, positions at average cost,
marks, high-water prices, NAV peak and daily anchor, and the decisions taken on it. A
cycle is one step, because nothing else touches the book between the snapshot it decides
on and the fill: roll the day, evaluate the exits (stop-loss, trailing stop, take
profit), or let the gates and the risk engine cap an entry, plan it in whole lots, fill
it at the slipped mid with its fee, mark, save. The mid is on either side of the last
trade that exits are sized by. A book whose NAV is not positive has no snapshot
(`SnapshotTaken`), and its cycles raise. `RejectedTick` is a tick the cycle does not act
on; `Crash` and `Restart` resume from the last checkpoint, which may lag behind. `anchor`
is history: the day and the NAV of the first checkpoint of the last day that has one.

**`ServiceLoop`** is the control flow of `service.run`: boundary, probe, gather,
decision, review, delivery, paper fill, wrap-up, back-off, each await a step. The
operator engages and lifts the halt channels at any time (`settings` and `signal` are
never lifted); the Redis channel is what the probe cached. `errors` is the error budget,
`cache` and `calls` are the reviewer's. `standing` (halts that stood when the cycle
began), `sent` and `approvals` are history. The settings of a process are a record chosen
at the start.

**`ProviderRegistry`** is `ProviderRegistry.call`: cache, breaker, quotas, the wait, and
the last good payload. `log` holds every call that left, with the time it was sent and
ended, and is the reference the quota and the breaker are judged by.

**`StrategyBreaker`** is the breaker of one strategy with its export to and load from the
checkpoint. `since` holds all outcomes since the last reset, the reference for the
trimmed window; `heldUntil` is the end of the cool-down of a trip that reached the
checkpoint. A crash loses the outcomes and trips reported after the last export; `since`
is restored with the checkpoint and does not contain them, so both properties speak of
what was exported or happened since the process started.

**`Streaming`** is the reconnect loop, as operators on a stream; **`EdgeFeeds`** is the
two collectors that run it, the liquidation windows, the ticker cache and
`runtime._edge_features`, which reads, and thereby closes, aged buckets. `counted`
records what arrived for each window.

**`PaperPerp`** is the hedge book of one asset with the cached mid of its feed: hedges of
spot fills, carry hedges, funding from the settlements of the venue, the kill switch,
and restarts that lose the book and keep the ledger.

**`AuditTrail`** is `risk_audit.py` and `audit_anchor.py` over a sequence of
processes. A hash is a fresh number; a line is a record or unreadable, and the last
one may lack its newline, so that the next append continues it. `Start` is the gate
of `cli.py`, `Record*` the append with its failures, `BeginPublication` to
`EndPublication` is `publish_now` over the fan-out, `Stop` the `finally` of `run`.
`slipped` and `damaged` are history variables: they record that an append left bytes
it should not have, and no action reads them.

**`WeatherTape`** is the collector (`Discover` to `AppendObservation`), the resolver
(`BeginResolve` to `WritePrint`) and the two files between them. A file is its readable
rows and how its last line ends; a killed append leaves nothing, a part of a line, or
all but its newline, and the next append continues it.

The theorems are in modules of their own. **`ExecutionPlaneProofs`** is about
`Submission`, by itself and as a part of `ExecutionPlane`; **`RiskControlProofs`** about
the three components that may stop or record a trade, `ServiceLoop`, `StrategyBreaker`
and `AuditTrail`; **`TradingBookProofs`**, **`EdgeFeedsProofs`**,
**`ProviderRegistryProofs`**, **`WeatherTapeProofs`** and **`PaperPerpProofs`** about the
component they are named after. **`SumLemmas`** holds what the proofs about money and
totals need of sums over finite sets. **`MC*`** modules give constants their values.
`MCRiskControls` and `MCMarketData` put two components next to each other that share
neither variable nor file: `AuditTrail` and `StrategyBreaker`, `ProviderRegistry` and
`EdgeFeeds`. A behaviour of both is a behaviour of each, interleaved, so one of the two
moves while the other stays at its beginning. `EdgeFeedsDefault` checks `EdgeFeeds` alone.

Definitions whose comment begins with "Mutation:" or "Mutant:" are plausible bugs, each
the mutated form of the definition it precedes; they are used by no specification. They
show that the property they belong to can fail.

## Runs

| Run | Instance | What it shows |
|---|---|---|
| `Submission` | an entry and a protective exit of the same pair and side, 2 lots, 2 retries | `AtMostOneOrder`, `WriteAhead`, `ReduceOnlyNeverGrows`, no more requests than the retries allow over all restarts (`BoundedRequests`), every call ends (`CallReturns`), and the refinement of `OncePerDecision` |
| `ExecutionPlane` | a buy and a sell of 1 lot, no local paper fills, saves fail at will, one restart | within a process book and ledger agree in every state except on sells the book refused (`AppliedUnlessRefused`), a lot is booked twice only if an exception stranded it (`NeverBookedTwice`), and, unless an orphan exists, a block is lifted (`BlockClearsWithoutOrphans`) and, until a restart, every trade reaches the book or is a sell it refused (`TradesReachBook`) |
| `ExecutionRestart` | an entry and a protective exit, 2 lots, one retry, two restarts anywhere, with and without local paper fills | an order is closed only with its trades recorded (`ClosedMeansRecorded`), an order other than a protective exit is booked from one source (`EntriesBookedOnce`), and fills, statuses and restarts keep the file on the transition table (`DurableLifecycle`) |
| `TradingBook` | two assets, rising and falling prices with the mid on either side, two entries, a lost checkpoint, midnight | cash is never overdrawn under a reserve that covers the fee and flat positions leave no trace (`BookSolvent`), entries stay within the limits they were judged by (`EntriesWithinLimits`), a stop-loss gets out at once from every book, by the share that the lowest price it is sized, capped or filled at has in the price of the fill (`StopLossGetsOut`), a daily anchor stands once it is checkpointed (`AnchorStands`) |
| `ServiceLoop` | two symbols, eight settings, error budget 3 | a halt that stands when a cycle begins lets it execute nothing (`HaltHonoured`), the review fails closed for entries and never holds back an exit, a service that only fails stops (`PersistentFailureEnds`) |
| `MarketData` | registry: two keys, threshold 2, both quotas reached, a day boundary; feeds: either feed, two sides, delayed messages, clock skew, one reconnect | `QuotaKept` in every window and day, `BreakerHolds` for the cool-down, `ServedFresh`; the report (`ReportExact`) and the baseline (`BaselineExact`) are exact, a feed gives up per outage (`BudgetPerOutage`), and a dead feed is missing past its age limit (`DeadFeedAgesOut`) |
| `PaperPerp` | two venues, a hedge and carry hedges, a restart | each settlement of the hedge's venue after its quote is credited once (`FundingExact`), every fee belongs to a hedge (`FeesExplained`) |
| `RiskControls` | trail: two sinks, anchoring on and off, interval 2, 5 lines, 2 faults; breaker: outcomes -2 to 2, window 3, late reports, crashes | the chain survives restarts (`ChainIntact`), the gate accepts every undamaged trail (`NeverLocksItselfOut`) and lets no process onto a fork (`ForksAreOwn`), the unanchored tail is bounded (`TailBounded`); a strategy is suspended exactly on the policy (`TrippedOnPolicy`), and a checkpointed suspension lasts (`SuspensionHolds`) |
| `WeatherTape` | two markets of two days and months, two overlapping collectors, 2 kills | a resolved row is the latest with enough lead (`DecisionStands`), markets are resolved once, a kill costs at most one row, and prints catch up |
| `SubmissionLate` | one decision, late delivery | ends in a violation of `AtMostOneOrder`, see below |
| `ExecutionLost` | one buy of one lot, one restart | ends in a violation of `AppliedExactlyOnce`, see below |
| `EdgeFeedsDefault` | the feeds of `MarketData`, with the default age limit of 0 | ends in a violation of `DeadLiqIsMissing`, see below |

`SubmissionLate` checks what `submitter.py:5` says, one decision, at most one venue
order. A request still on its way when the venue is asked is not listed, the gate
answers absent, the order is sent again, and both are accepted. Every other run, and
the proof, assume that a request is decided before the question is answered.

`ExecutionLost` checks what `docs/SECURITY-REVIEW-2026-09.md:183` says, that a fill id is
applied exactly once and that this survives a restart. A pass saves the ledger, then the
checkpoint (`service.py:695`); after a crash in between, the fill is processed and never
in the book. Two things of the claim do hold and are proved: within a process it is true
except for sells the book refuses, and across restarts only a lot that an exception
stranded is ever booked twice.

`EdgeFeedsDefault` checks what `market/liquidations.py:12` says, that an exhausted feed
degrades to missing features. With `binance_liq_max_age_seconds` at its default of 0
(`config.py:162`) it is reported as a quiet market for ever.

### What the models show and no run asserts

These behaviours differ from what a document says, or deserve to be known. Most are
executions of the models, on the instances above or with one more decision; where the
model leaves the point out (the feeding of the breaker, two resolvers, the age of a
book) it was met while reading the code for it.

- Two exits sized to the same position both trade: the second fill is recorded, refused
  by the book and skipped ever after (the exception in `AppliedUnlessRefused` and
  `TradesReachBook`).
- A pass that an orphan trade, a ledger save that fails or a sell that the book refuses
  ends between its fills and its save keeps in memory what it booked. The next quiet
  cycle writes the book to the checkpoint, nothing writes the ledger, and after a restart
  the next pass books the same fill ids again, against the claim `ExecutionLost` checks.
  `NeverBookedTwice` says that nothing else does.
- A stop-loss may leave a rest. `tests/security/test_protective_exit_sizing.py:136` says
  of every protective rule that it fills the whole position, and sizes and fills at one
  price. The service sizes at the last trade (`pipeline.py:340`) and fills at the mid
  (`paper_fill.py:151`); with the mid above the last trade, as in a market that is being
  sold, the notional is worth less than the position, and a later cycle has to sell the
  rest, or it is dust. `StopLossGetsOut` says how large it may be.
- A resized exit is filled locally in part, and the venue's trades are booked too, which
  `docs/EXECUTION-ARCHITECTURE.md:532` excludes. Hence `EntriesBookedOnce` is not
  about protective exits.
- An adopted submission has no venue order id, so its trades are orphans for ever
  (`docs/RUNBOOK.md:1794` says that it needs no action), and nothing looks at an
  uncertain row again (`docs/RUNBOOK.md:1840`).
- `peak_nav_usd` is raised by fills and not by marks (`portfolio.py:204`): a fall from a
  NAV that only marks reached is no drawdown (`docs/RUNBOOK.md:1733`).
- An exit whose rest is below the minimum notional leaves dust no later exit can close.
- `min_cash_reserve_pct` may be smaller than the fee (`config.py:212`). An entry may then
  overdraw the cash, by its fee at most; the snapshot reads it as zero.
- The anchor of a day that has no checkpoint yet is not durable: a process that rolls the
  day, fails before its checkpoint and crashes is followed by one that anchors the same
  day at the NAV of the older checkpoint (`docs/RISK-PRINCIPLES.md:105` says that the
  persisted anchor rolls at UTC midnight). Hence the premise of `AnchorStands`.
- A NAV that is not positive has no snapshot (`models.py:49`): every later cycle raises.
- A halt on the file or by signal after the risk decision does not stop the order already
  decided.
- Nothing in the service reports a closed trade to the strategy breaker: it is asked and
  persisted and cannot trip.
- The fill that closes a spot position is hedged like one that opens it.
- A read that closes an aged bucket while an event of its window is under way leaves two
  totals for that window (`liquidations.py:174` says they do not overlap); their sum is
  right.
- A collector run reads the clock once (`collect_cli.py:191`): a book read after the
  close is recorded as observed at the start of the run, while `resolve_cli.py:194`
  promises point-in-time rows by construction.
- A torn line of the tape swallows the next row; two resolvers at once would resolve
  twice, and only the daily timer keeps them apart.

### Bounds

Submission and execution: `MaxQuantity = 2` lots is the least at which an order can be
partially filled, resized and compared by size; two decisions are the least at which one
order can be mistaken for another or an exit can depend on an entry. `MaxRetries = 2`
gives a retry after a retry. Two restarts let a crash hit the recovery from a crash.
`ExecutionPlane` needs a decision that sells, so that the book can refuse a fill, and one
restart next to failing saves, so that what an exception stranded can be booked again. It
has one lot per order, because its properties are about each trade by itself and the two
orders give a pass two trades, one of which may abort it; `ExecutionRestart` has the
partial fills.

AuditTrail: five lines with `AnchorEvery = 2` hold two anchored intervals and a late
record, or a fork and what follows it; two faults let a failed append meet a failed
publication or another failed append.

TradingBook: prices 80 and 120 with a skew of 5 cross every exit threshold and every
limit; two entries (`MaxEntries`) on two assets share the account limits; one unsaved
cycle and one midnight separate memory from the checkpoint. Entries at 80 buy two or more
lots, so that a stop-loss whose mid is above the last trade still sells some of them and
leaves a rest, and the share `StopLossGetsOut` asks for is not rounded to nothing.

ServiceLoop: two symbols so that the error budget spans symbols, three errors, two
evidence packets so that a cached verdict can be the wrong one, one review a day.
ProviderRegistry: quota, cool-down and cache windows all differ, seven ticks cross a day.
StrategyBreaker: window, loss count and outcomes allow each rule to trip alone; four
outcomes between resets exceed the window. PaperPerp: two prints, two cycles and one
restart. EdgeFeeds: six ticks are three windows and a pruned one. WeatherTape: the closes
are one tick apart, three ticks pass the second close and its lag, two runs overlap, and
two kills let one hit what another left. It assumes that a run of the collector ends
before its markets are due (`MaxRun <= SettleLag`).

The capped counters are named `Max...` in each module; attempts, quantities and errors
are bounded by the code. Symmetry (keys, assets, venues) is used in the runs without
liveness. `CHECK_DEADLOCK FALSE` is said of `MarketData` and `EdgeFeedsDefault` only, where
the bounded clock and dead feeds end a behaviour.

### Fairness

`FairSpec` (Submission): weak fairness of the call's own steps, which the event loop
and the timeouts around every request give, and of the network, where a request does
not stay on the wire for ever. Submitting and crashing are not fair.

`FairPlaneSpec` (ExecutionPlane): weak fairness of the steps of a cycle in progress;
strong fairness of starting a pass, because `reconcile_interval_seconds` elapses
however many cycles run in between; and strong fairness of the fetches, saves and
completion of passes, which assumes that the venue answers some of the passes and that
not every save fails. Without that assumption no reconciliation could promise
anything. No fairness is placed on failures, crashes, new orders or fills.

`FairServiceSpec` (ServiceLoop): weak fairness of the steps that wait for nothing or
under a timeout (`BoundedNext`). The probe, the tick and the event sinks set none, so
`PersistentFailureEnds` has the premise that the loop does not wait there for ever.

`FairWeatherSpec` (WeatherTape): time passes, started runs go on, the timer starts the
resolver again and again, and, strongly fair for each market, the stations answer and
agree in some of the runs that ask. Nothing is promised of collectors starting.

## Proofs

TLAPS proves the following for every value of the constants, from the assumptions on
them in the modules that declare them: types, positive intervals, that no decision is
named like the absence of one, and for the weather tape that a run of the collector ends
before its markets are due (`MaxRun <= SettleLag`, which `config.py:571` does not
enforce). Two more are made of the trading book: the assets are finitely many, and every
fill price is positive, as it is in the code, where prices are floats and slippage rounds
none to zero. Nothing is assumed of the cash reserve or of how the baseline of the
liquidations relates to their window, which the configuration leaves free too. A theorem
that needs more says so in its `ASSUME`. Hardly any property below is inductive as it
stands; each paragraph says what was added. Every invariant and action property that a
passing run checks is proved, `EntriesBookedOnce` under the hypothesis that saves do not
fail; what stays with TLC is liveness. Some theorems go beyond the runs: `DurableLifecycle`
and `ClosedMeansRecorded` with saves that fail, `NeverBookedTwice` over any number of
restarts.

`Submission` (`ExecutionPlaneProofs`). What a save writes depends on how memory relates to the file.
`BaseInv` adds to `WriteAhead` that memory is ahead of the file along the transition
table, that attempts are bounded according to where the call stands, that exits shrink,
and what each `pc` says of the row. It needs no assumption on the network. From it follow
`TypeCorrect`, `WriteAheadAndBounded`, `DurableLifecycleHolds` (an action property: a
save replaces the file by memory, and `RowProgress` is transitive) and `ExitsNeverGrow`.

`AtMostOneOrder` needs more, and needs `LateDelivery = FALSE`: `SubmissionLate` shows
it false otherwise. `OnceInv` says that a decision has at most one live request, that
its quantity is that of the row in memory and on disk, so that the venue's row matches
when the gate asks, that an uncertain row has no venue order id, so that the ledger
cannot account for it, and that a call about to send has no live request. Hence a
negative answer means that no request is alive. `AtMostOnce` and `Refinement`, that
`Submission` implements `OncePerDecision`, follow.

`ExecutionPlane` (`ExecutionPlaneProofs`). `PlaneInv` is the frame of all that follows, for all constants:
the submitter's `CoreInv`, which fills and statuses written between calls must keep
(`LedgerWrite`), types and bounds of the plane, that trades and fetched rows are of
accepted orders, and that the order of a cycle in progress has no fill yet. On it rest
four arguments.

- One process. `ExactInv` adds to `AppliedUnlessRefused` that a refused lot is a sell the
  ledger has recorded (`RefusedSells`): a lot is recorded and booked in one step, or
  recorded and refused, and nothing recorded is asked of the book again, whatever saves
  fail and passes abort. Hence `AppliedOnceUnlessRefused`, for all constants, and
  `BuysAppliedExactlyOnce` for a service that never sells.
- One source. `SourceInv`: what is booked has a row on disk once the cycle's save is
  past, and the paper fill of an entry marks its row as a local paper fill, in the file
  before it can be in the checkpoint. Hence `EntriesStayBookedOnce` over any restarts,
  if saves do not fail.
- Closed orders. `ClosedInv`: every terminal row, in memory and on disk, has all the
  trades its venue order will ever have, because either all its lots are recorded or the
  order was final at the venue when the pass fetched it, before the trades, each of
  which is still pending or recorded. It also needs that a request has the quantity of
  its row and that an acceptance is of the last request. It holds for all constants, with
  restarts, failing saves and late delivery, and so does `ClosedOrdersAreRecorded`. The
  property leaves out the protective exits of a service that fills locally, which two
  sources close.
- No lot twice over restarts. `BookedOnceInv` speaks of the lots that no exception
  stranded: such a lot is in the book at most once and recorded, in the file too unless
  the task is between the fill and its save, and if it is in the checkpoint it is in the
  ledger file. A step that leaves that window without a save is one that strands what it
  leaves (`Strands`), so `NeverTwiceAcrossRestarts` holds for all constants: failing
  saves, orphans, refused sells, resized exits and late delivery included.

`PlaneLifecycleHolds` is `DurableLifecycle` for the whole plane, from `PlaneInv`: a fill
or a status writes a row along the table (`RowWritten`), and a save writes memory.

`AuditTrail` (`RiskControlProofs`). The next record chains to what the writer remembers. `TrailInv` adds
to `ChainIntact` that a process that may run on a trusted trail either has not read the
file or remembers its end (`WriterAtEnd`), that every stored or pending anchor names a
record of the file, and that an undamaged trail ends with a newline. A trail is trusted
if no append has damaged it, or if the running process checked it and has not hurt it
since. `TrailTypeCorrect`, `ChainStaysIntact`, `OnlyOwnForks` and `GateNeverLocksOut`
follow. `TailInv` relates the last anchor a process remembers to the sinks and to the
length of the file before, during and after a publication; hence `TailStaysBounded`.

`StrategyBreaker` (`RiskControlProofs`). `load` takes the trip from the checkpoint and `export` writes
memory back. `SuspensionInv` says that, while the suspension lasts, both carry a trip
whose cool-down reaches as far: `SuspensionLasts`. For `TrippedExactlyOnPolicy` the
breaker, in memory and in the checkpoint, is related to all outcomes since the reset
(`FollowsPolicy`): the trimmed window is their end, the loss counter their last run of
losses, and `realized_drawdown_usd`, a recursive walk with a running peak, is the worst
sum of a stretch of the window (`DrawdownIsWorstStretch`).

`ServiceLoop` (`RiskControlProofs`). `ServiceInv`: a halt that stood when the cycle began is still in
force, the probe has noticed a standing key, from the risk decision on a standing halt
leaves no intent, and only an intent is executed; the intent is the proposal or nothing,
an exit keeps it, the reviewer's cache holds its latest answers, and in veto mode an
entry past the review was approved. `HaltsAreHonoured` and `ReviewsAreHonoured` follow.

`ProviderRegistryProofs`. `RegistryInv` relates each counter to the log of calls:
consecutive failures count back to the last success and `_opened_at` is the end of the
last failure; what left the minute window is older than it; the day counter counts all
calls of its day; a stored payload is the latest of its key and its window starts no
later. `QuotasAreKept`, `BreakerAlwaysHolds` and `NothingStaleServed` follow.

`WeatherTapeProofs`. `WeatherInv`: a run is no older than `MaxRun` and its market was
open when it began, so what the resolver has picked, resolved or printed is of a market
nobody can still observe; what is still to be resolved is new; and each kind of broken
line end is a debt that is paid by a kill (`KillInv`). `DecisionsStand`,
`NeverResolvedTwice` and `KillsCostOneRow` follow.

`PaperPerpProofs`. `PerpInv`: the fees are one per seen id, the ledger holds the hedge
of the book and what earlier processes left; the funding time is the quote or a
settlement of the hedge's venue, and the settlements between the two are credited once
or had left the tape. `FundingIsExact` and `FeesAreExplained` follow.

`TradingBookProofs`. `BookInv` says of both the book in memory and the one in the
checkpoint (`Sound`) that the cash is not negative if the reserve is no smaller than the
fee, that what is held has a positive mark no higher than its high-water price, that what
is not held is flat, and that no more positions are open than allowed; that the checkpoint
is of no later day than the book (`DaysInOrder`); and that the anchor is that of the
checkpoint, and of the book when both are of one day (`AnchorKept`). The mark matters
because the engine sees exposures and not quantities: an asset is held exactly when its
exposure is positive (`SnapshotFacts`). A buy pays its notional and a fee; the engine
bounds the notional by what the cash leaves over the reserve, and the reserve is a share
of the NAV, which is at least the cash (`ReserveCoversFee`): `BookStaysSolvent`, whose
condition on the reserve is a part of the statement. A stop-loss is sized at the last
trade less the slippage and capped by the exposure at the mark; the quantity is what that
notional buys at the price of the fill, so it is at least the share of the position that
the lowest of the three prices has in the last (`ShareSold`), and the planner cuts it to
what is held: `StopLossAlwaysGetsOut`, from every sound book. `EntriesRespectLimits` is
about one cycle from a sound book. `AnchorAlwaysStands` needs the order of the days: when
the checkpoint is of today, so is the book, and rolling the day leaves its anchor alone.

`EdgeFeedsProofs`. Two invariants, of disjoint parts of the state. `OutageInv` says that
the reconnect counter of a stream is the number of its failures since the last item and
within the budget until the stream is exhausted, and that a value read from a feed is no
younger than the end of the feed, up to the skew: `FeedsSpendTheirBudget` and
`DeadFeedsGoMissing`. `WindowInv` says that
events wait and are ingested in the order of their times; that the bucket in progress is
that of the last event and, while its window lasts by the local clock, has all the events
of the window; and that nothing is counted past the last event. `ReportsAreExact` follows:
a bucket that a read closed, and a late event opened again, is one whose window is over.
`TotalsAreExact` is inductive with the types alone, given what an append and a prune do
to the sum over the buckets of a window (`ClosingAdds`, `PruningKeeps`).

Three pieces of induction recur. That a set of numbers has a least or a greatest member
(`LeastNatural`, `LatestMoment`, `SmallestExists`) comes from well-foundedness. Facts
about recursive functions on sequences (`RiskControlProofs`) are proved by
`IntervalInduction`, with the fact given as the set of the indices at which it holds.
Sums over a finite set are the library's fold, which picks elements by `CHOOSE`;
`SumLemmas` shows by induction over the subsets, again with the fact as a set, that such
a sum exists, that it may be taken in any order, and that it does not depend on how the
summands are indexed.

Only model-checked:

- Liveness (`CallReturns`, `BlockClearsWithoutOrphans`, `TradesReachBook`,
  `PersistentFailureEnds`, `PrintsCatchUp`): fairness is out of the prover's reach.
- `EntriesBookedOnce` when saves fail is neither proved nor checked. `ClosedMeansRecorded`
  does not claim anything of a protective exit of a service with local paper fills: the row
  of an exit that was filled locally in part is full, and closed, before the venue has made
  all the trades of its order.
- `TradesReachBook` speaks of a process that has not been restarted: after a restart
  `ExecutionLost` is a counterexample.

## What is not modelled

- Research and backtesting (`research/`, `backtest.py`, `walkforward.py`, `pretrade.py`,
  the Polymarket evaluators): more than half of the code. They are floating-point
  functions of a data set, with no concurrent, persistent or interactive state; a model
  would restate the formula, or leave out the numbers that are the point. The pre-trade
  backtest is one of the gates before an entry, which are a free choice in `TradingBook`.
- Acceptance, operations and reporting tools: reports over recorded artefacts.
- Adapters of HTTP sources: requests and parsing. The merged Kraken book (the runtime
  takes the first book of a connection, a snapshot), the wallet history and the
  stablecoin tip archive (rows for offline research, which the loop does not read).
- Fan-out of events to Postgres and Redis: its failures are a step of `ServiceLoop`.
- Realized profit and fees per position, volatility sizing, which only shrinks a request,
  the token budget of the reviewer.
- How a ledger or checkpoint file comes to be torn: that the service then halts before
  its first cycle is in `ServiceLoop`.
- Tampering with the audit files. The trail is what the service itself does to it.

## Plan

The components listed as modelled are, and their safety properties are proved. What
could still be done:

1. Liveness, with a prover that handles fairness.
2. The merged order book of Kraken, once the runtime reads more of it than a snapshot.
