----------------------------- MODULE WeatherTape ----------------------------
(***************************************************************************)
(* The point-in-time tape of the Polymarket weather research: the          *)
(* collector (polymarket/collect_cli.py), the two append-only files        *)
(* (polymarket/tape.py), the daily resolver (polymarket/resolve_cli.py)    *)
(* and the monthly prints the evaluator reads.  Every process may be       *)
(* killed at any step.  A timer starts collectors, so that a slow run may  *)
(* overlap the next one; the resolver runs once a day.                     *)
(*                                                                         *)
(* Abstractions.  A market stands for a payload that parses to an allowed  *)
(* Fahrenheit contract of a catalogued city; other payloads only count as  *)
(* skipped.  Prices and temperatures are left out: a row is its market and *)
(* its times.  An unreadable line is kept only while it lacks a newline,   *)
(* because readers skip it.                                                *)
(***************************************************************************)
EXTENDS Integers, Sequences, FiniteSets

CONSTANTS
    Markets,       \* parsed temperature markets
    Collectors,    \* collector runs that may overlap
    CityDay,       \* the city and event date of a market
    CloseAt,       \* local_close_at of a city and date
    Month,         \* the calendar month of a city and date
    MinLead,       \* min_lead_hours
    SettleLag,     \* settle_lag_hours
    MaxRun,        \* bound on how long a run of the collector takes
    MaxListed,     \* bound on the markets a run finds
    MaxRuns,       \* bound on the runs of collectors
    MaxKills,      \* bound on killed processes
    MaxClock       \* bound on the clock

CityDays == {CityDay[m] : m \in Markets}
Months == {Month[d] : d \in CityDays}
Close(m) == CloseAt[CityDay[m]]

ASSUME WeatherAssumption ==
    /\ CloseAt \in [CityDays -> Nat]
    /\ MinLead \in Nat /\ SettleLag \in Nat /\ MaxRun \in Nat
    /\ MaxRun <= SettleLag
    /\ {MaxListed, MaxRuns, MaxKills, MaxClock} \subseteq Nat

VARIABLES
    clock,
    tape,        \* the file of observations
    resolved,    \* the file of resolved rows
    prints,      \* the file of each month
    collector,   \* the run of each collector
    resolver,    \* the run of the resolver
    runs,        \* runs of collectors so far
    kills,       \* processes killed so far
    written      \* history: how many observations were appended

weatherVars == <<clock, tape, resolved, prints, collector, resolver, runs, kills, written>>

(* No time: a forecast that was not fetched. *)
Never == -1

IdleCollector ==
    [pc |-> "idle", now |-> 0, queue |-> <<>>,
     forecasts |-> [d \in CityDays |-> Never]]

IdleResolver == [pc |-> "idle", todo |-> {}, months |-> {}]

EmptyFile == [rows |-> <<>>, tail |-> "ended"]

WeatherInit ==
    /\ clock = 0 /\ runs = 0 /\ kills = 0 /\ written = 0
    /\ tape = EmptyFile /\ resolved = EmptyFile
    /\ prints = [mo \in Months |-> {}]
    /\ collector = [c \in Collectors |-> IdleCollector]
    /\ resolver = IdleResolver

-----------------------------------------------------------------------------
(* Files.  tail tells how the last line ends: "ended" by a newline, "torn" *)
(* somewhere inside, "whole" but for its newline, in which case readers    *)
(* still parse it and it is the last of rows.                              *)

(* What is left of the rows when more text is put after the last line. *)
Joined(f) == IF f.tail = "whole" THEN SubSeq(f.rows, 1, Len(f.rows) - 1) ELSE f.rows

(* Mutant: the line is written without its newline. *)
AppendedUnended(f, row) ==
    [rows |-> IF f.tail = "ended" THEN Append(f.rows, row) ELSE Joined(f),
     tail |-> IF f.tail = "ended" THEN "whole" ELSE "torn"]

Appended(f, row) ==
    [rows |-> IF f.tail = "ended" THEN Append(f.rows, row) ELSE Joined(f),
     tail |-> "ended"]

(* append_sync cut short: nothing of the line, a part, or all but the end. *)
CutShort(f, row) ==
    {f,
     [rows |-> Joined(f), tail |-> "torn"],
     [rows |-> IF f.tail = "ended" THEN Append(f.rows, row) ELSE Joined(f),
      tail |-> IF f.tail = "ended" THEN "whole" ELSE "torn"]}

RowsOf(f) == {f.rows[i] : i \in DOMAIN f.rows}

Lead(row) == Close(row.market) - row.observed

(* Mutant: the last row of the file decides. *)
DecisionRowsLast(rows) ==
    LET eligible == {i \in DOMAIN rows : Lead(rows[i]) >= MinLead}
    IN  {rows[i] : i \in {k \in eligible :
            \A j \in eligible : rows[j].market = rows[k].market => j <= k}}

(* select_decision_rows: of each market the latest row with enough lead,   *)
(* the first of those in the file.                                         *)
DecisionRows(rows) ==
    LET eligible == {i \in DOMAIN rows : Lead(rows[i]) >= MinLead}
        Before(i, j) == \/ rows[i].observed > rows[j].observed
                        \/ rows[i].observed = rows[j].observed /\ i <= j
    IN  {rows[i] : i \in {k \in eligible :
            \A j \in eligible : rows[j].market = rows[k].market => Before(k, j)}}

(* What the writer and the converter demand of a row. *)
Timely(row) == row.observed < Close(row.market) /\ row.issued < Close(row.market)

(* split_prints_by_month of what to_resolved_weather_rows keeps. *)
PrintOf(mo, rows) == {row \in rows : Month[CityDay[row.market]] = mo /\ Timely(row)}

-----------------------------------------------------------------------------
(* The collector. *)

Front(c) == Head(collector[c].queue)

(* On to the next market of the run. *)
Advanced(r) ==
    [pc |-> IF Len(r.queue) = 1 THEN "idle" ELSE "market",
     now |-> r.now, queue |-> Tail(r.queue), forecasts |-> r.forecasts]

Stepped(c, r) ==
    /\ collector' = [collector EXCEPT ![c] = IF r.pc = "idle" THEN IdleCollector ELSE r]
    /\ UNCHANGED <<clock, resolved, prints, resolver, runs, kills>>

Listings == UNION {[1 .. n -> Markets] : n \in 1 .. MaxListed}

(* run_once up to the loop: the time is read once, then the markets are    *)
(* discovered.  A market may be listed twice when the pages shift.         *)
Discover(c) ==
    /\ collector[c].pc = "idle"
    /\ runs < MaxRuns
    /\ runs' = runs + 1
    /\ \E listing \in Listings :
          collector' = [collector EXCEPT ![c] =
              [pc |-> "market", now |-> clock, queue |-> listing,
               forecasts |-> [d \in CityDays |-> Never]]]
    /\ UNCHANGED <<clock, tape, resolved, prints, resolver, kills, written>>

(* The market is closed at the time of the run, or its book is one-sided   *)
(* or cannot be read.                                                      *)
SkipMarket(c) ==
    /\ collector[c].pc = "market"
    /\ Stepped(c, Advanced(collector[c]))
    /\ UNCHANGED <<tape, written>>

ReadBook(c) ==
    /\ collector[c].pc = "market"
    /\ collector[c].now < Close(Front(c))
    /\ Stepped(c, [collector[c] EXCEPT !.pc = "forecast"])
    /\ UNCHANGED <<tape, written>>

(* The forecast of the run's cache, or one issued now. *)
Issued(c) ==
    LET cached == collector[c].forecasts[CityDay[Front(c)]]
    IN  IF cached = Never THEN clock ELSE cached

GetForecast(c) ==
    LET r == [collector[c] EXCEPT !.forecasts[CityDay[Front(c)]] = Issued(c)]
    IN  /\ collector[c].pc = "forecast"
        /\ Stepped(c, IF Issued(c) >= Close(Front(c)) THEN Advanced(r)
                      ELSE [r EXCEPT !.pc = "append"])
        /\ UNCHANGED <<tape, written>>

(* A forecast that cannot be fetched is a skip; a cached one is not fetched. *)
ForecastMissing(c) ==
    /\ collector[c].pc = "forecast"
    /\ collector[c].forecasts[CityDay[Front(c)]] = Never
    /\ Stepped(c, Advanced(collector[c]))
    /\ UNCHANGED <<tape, written>>

(* A row: its market, observed_at and forecast_issued_at.  The time of the *)
(* book is the time of the run, whenever it was read.                      *)
Observation(c) ==
    [market |-> Front(c), observed |-> collector[c].now, issued |-> Issued(c)]

(* append_sync; a row that comes too late would end the run. *)
AppendObservation(c) ==
    /\ collector[c].pc = "append"
    /\ IF Timely(Observation(c))
       THEN /\ tape' = Appended(tape, Observation(c))
            /\ written' = written + 1
            /\ Stepped(c, Advanced(collector[c]))
       ELSE Stepped(c, IdleCollector) /\ UNCHANGED <<tape, written>>

KillCollector(c) ==
    /\ collector[c].pc # "idle"
    /\ kills < MaxKills
    /\ kills' = kills + 1
    /\ tape' \in IF collector[c].pc = "append" THEN CutShort(tape, Observation(c)) ELSE {tape}
    /\ collector' = [collector EXCEPT ![c] = IdleCollector]
    /\ UNCHANGED <<clock, resolved, prints, resolver, runs, written>>

-----------------------------------------------------------------------------
(* The resolver. *)

(* Mutant: no settle lag. *)
DueAtClose(row) == clock >= Close(row.market)

(* Mutant: only the markets that fall due today. *)
DueToday(row) == clock = Close(row.market) + SettleLag

Due(row) == clock >= Close(row.market) + SettleLag

(* Mutant: rows resolved by an earlier run are resolved again. *)
AlreadyForgotten == {}

Already == {row.market : row \in RowsOf(resolved)}

(* resolve_tape up to the loop.  Rows resolved before or not yet due are   *)
(* passed over.                                                            *)
BeginResolve ==
    /\ resolver.pc = "idle"
    /\ resolver' =
          [pc |-> "resolve", months |-> {},
           todo |-> {row \in DecisionRows(tape.rows) : row.market \notin Already /\ Due(row)}]
    /\ UNCHANGED <<clock, tape, resolved, prints, collector, runs, kills, written>>

(* resolve_official_high: both stations answered and agree. *)
Matched(official) == official.primary /\ official.secondary /\ official.agree

(* One row of the loop. *)
ResolveRow(row, official) ==
    /\ resolver.pc = "resolve"
    /\ row \in resolver.todo
    /\ resolved' = IF Matched(official) THEN Appended(resolved, row) ELSE resolved
    /\ resolver' = [resolver EXCEPT !.todo = @ \ {row}]
    /\ UNCHANGED <<clock, tape, prints, collector, runs, kills, written>>

(* The resolved file is read again; months with rows are to be printed. *)
BeginPrints ==
    /\ resolver.pc = "resolve"
    /\ resolver.todo = {}
    /\ LET months == {mo \in Months : PrintOf(mo, RowsOf(resolved)) # {}}
       IN  resolver' = IF months = {} THEN IdleResolver
                       ELSE [resolver EXCEPT !.pc = "print", !.months = months]
    /\ UNCHANGED <<clock, tape, resolved, prints, collector, runs, kills, written>>

WritePrint(mo) ==
    /\ resolver.pc = "print"
    /\ mo \in resolver.months
    /\ prints' = [prints EXCEPT ![mo] = PrintOf(mo, RowsOf(resolved))]
    /\ resolver' = IF resolver.months = {mo} THEN IdleResolver
                   ELSE [resolver EXCEPT !.months = @ \ {mo}]
    /\ UNCHANGED <<clock, tape, resolved, collector, runs, kills, written>>

(* Killed, in the middle of an append or of a print perhaps: a truncated   *)
(* print holds no rows.                                                    *)
KillResolver ==
    /\ resolver.pc # "idle"
    /\ kills < MaxKills
    /\ kills' = kills + 1
    /\ resolved' \in {resolved} \cup UNION {CutShort(resolved, row) : row \in resolver.todo}
    /\ \/ prints' = prints
       \/ \E mo \in resolver.months : prints' = [prints EXCEPT ![mo] = {}]
    /\ resolver' = IdleResolver
    /\ UNCHANGED <<clock, tape, collector, runs, written>>

(* Time passes; no run of a collector lasts longer than MaxRun. *)
Tick ==
    /\ clock < MaxClock
    /\ \A c \in Collectors : collector[c].pc # "idle" => clock < collector[c].now + MaxRun
    /\ clock' = clock + 1
    /\ UNCHANGED <<tape, resolved, prints, collector, resolver, runs, kills, written>>

-----------------------------------------------------------------------------
Officials == [primary : BOOLEAN, secondary : BOOLEAN, agree : BOOLEAN]

CollectorStep(c) ==
    SkipMarket(c) \/ ReadBook(c) \/ GetForecast(c) \/ ForecastMissing(c) \/ AppendObservation(c)

ResolverStep ==
    \/ \E row \in resolver.todo, official \in Officials : ResolveRow(row, official)
    \/ BeginPrints
    \/ \E mo \in Months : WritePrint(mo)

WeatherNext ==
    \/ \E c \in Collectors : Discover(c) \/ CollectorStep(c) \/ KillCollector(c)
    \/ BeginResolve \/ ResolverStep \/ KillResolver
    \/ Tick

WeatherSpec == WeatherInit /\ [][WeatherNext]_weatherVars

(***************************************************************************)
(* Time passes, runs that were started go on, the resolver is started      *)
(* again and again by its timer, and of the runs that ask for a market's   *)
(* high not all are refused.  Nothing is promised of collectors starting.  *)
(***************************************************************************)
FairWeatherSpec ==
    /\ WeatherSpec
    /\ WF_weatherVars(Tick)
    /\ \A c \in Collectors : WF_weatherVars(CollectorStep(c))
    /\ WF_weatherVars(BeginResolve)
    /\ WF_weatherVars(ResolverStep)
    /\ \A m \in Markets : SF_weatherVars(
           \E row \in resolver.todo, official \in Officials :
              row.market = m /\ Matched(official) /\ ResolveRow(row, official))

-----------------------------------------------------------------------------
(* A resolved row is the latest observation of its market with enough      *)
(* lead: no run that was under way, and no row written out of order,       *)
(* brings a later one (select_decision_rows, the settle lag).              *)
DecisionStands ==
    \A row \in RowsOf(tape), done \in RowsOf(resolved) \cup UNION {prints[mo] : mo \in Months} :
        row.market = done.market /\ Lead(row) >= MinLead => row.observed <= done.observed

(* No market is resolved or printed twice, whatever torn lines earlier     *)
(* runs of the resolver left (resolved_market_ids).                        *)
ResolvedOnce ==
    /\ \A i, j \in DOMAIN resolved.rows :
          resolved.rows[i].market = resolved.rows[j].market => i = j
    /\ \A mo \in Months : \A p, q \in prints[mo] : p.market = q.market => p = q

(* A killed process costs at most one observation whose append had         *)
(* returned (append_sync, _read_jsonl).                                    *)
KillCostsOneRow == written - Len(tape.rows) <= kills

(* A market whose observation stays readable is in the end in the print of *)
(* its month: rows lost to torn lines are resolved again (resolve_tape).   *)
PrintsCatchUp ==
    \A m \in Markets :
        <>[](\E row \in DecisionRows(tape.rows) : row.market = m)
            => <>[](\E row \in prints[Month[CityDay[m]]] : row.market = m)
=============================================================================
