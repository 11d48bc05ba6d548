------------------------- MODULE WeatherTapeProofs --------------------------
(***************************************************************************)
(* Proofs about WeatherTape, for every set of markets and collectors, every*)
(* calendar, lead and bound, given that no run of a collector outlasts the *)
(* settle lag: resolved rows stand, no market is resolved twice, and a     *)
(* killed process costs one row.                                           *)
(***************************************************************************)
EXTENDS WeatherTape, SequenceTheorems, TLAPS

Row == [market : Markets, observed : Nat, issued : Int]
File == [rows : Seq(Row), tail : {"ended", "torn", "whole"}]
Run == [pc : {"idle", "market", "forecast", "append"}, now : Nat, queue : Seq(Markets),
        forecasts : [CityDays -> Int]]
Resolver == [pc : {"idle", "resolve", "print"}, todo : SUBSET Row, months : SUBSET Months]

WeatherTypes ==
    /\ clock \in Nat /\ kills \in Nat /\ written \in Nat
    /\ tape \in File /\ resolved \in File
    /\ prints \in [Months -> SUBSET Row]
    /\ collector \in [Collectors -> Run]
    /\ resolver \in Resolver

(* A run is no older than MaxRun, and the market it is about to record was *)
(* open when the run began.                                                *)
RunInv ==
    \A c \in Collectors : collector[c].pc # "idle" =>
        /\ collector[c].queue # << >>
        /\ collector[c].now <= clock /\ clock <= collector[c].now + MaxRun
        /\ collector[c].pc \in {"forecast", "append"} => collector[c].now < Close(Front(c))

(* Nothing that the resolver has picked, resolved or printed is of a       *)
(* market that can still be observed, or older than an eligible row.       *)
Final(done) ==
    /\ clock >= Close(done.market) + SettleLag
    /\ \A row \in RowsOf(tape) :
          row.market = done.market /\ Lead(row) >= MinLead => row.observed <= done.observed

FinalInv ==
    /\ \A done \in resolver.todo : Final(done)
    /\ \A done \in RowsOf(resolved) : Final(done)
    /\ \A mo \in Months : \A done \in prints[mo] : Final(done)

(* What is still to be resolved is new, and one row of each market. *)
TodoInv ==
    /\ \A p, q \in resolver.todo : p.market = q.market => p = q
    /\ \A p \in resolver.todo : p.market \notin Already

(* The rows that a tail in this state may yet cost: a torn one spoils the  *)
(* next row, a whole one, which no append has counted, itself as well.     *)
Debt(f) == IF f.tail = "ended" THEN 0 ELSE IF f.tail = "torn" THEN 1 ELSE 2

KillInv == written + Debt(tape) <= Len(tape.rows) + kills

WeatherInv ==
    /\ WeatherTypes /\ RunInv
    /\ FinalInv
    /\ TodoInv /\ ResolvedOnce
    /\ KillInv
-----------------------------------------------------------------------------
(* Files.                                                                  *)

(* g has the rows of f, perhaps without the last, and perhaps one more. *)
Grown(f, g, row) ==
    \A i \in 1 .. Len(g.rows) :
        \/ i \in 1 .. Len(f.rows) /\ g.rows[i] = f.rows[i]
        \/ i = Len(f.rows) + 1 /\ g.rows[i] = row

LEMMA JoinedRows ==
    ASSUME NEW f \in File
    PROVE  /\ Joined(f) \in Seq(Row)
           /\ Len(Joined(f)) <= Len(f.rows)
           /\ f.tail # "whole" => Len(Joined(f)) = Len(f.rows)
           /\ Len(Joined(f)) >= Len(f.rows) - 1
           /\ \A i \in 1 .. Len(Joined(f)) : Joined(f)[i] = f.rows[i]
<1>1. f.rows \in Seq(Row) /\ Len(f.rows) \in Nat
  BY DEF File
<1>2. CASE f.tail # "whole"
  BY <1>1, <1>2 DEF Joined
<1>3. CASE f.tail = "whole"
  <2>1. \A i \in 1 .. Len(f.rows) - 1 : f.rows[i] \in Row
    BY <1>1
  <2>2. /\ SubSeq(f.rows, 1, Len(f.rows) - 1) \in Seq(Row)
        /\ Len(SubSeq(f.rows, 1, Len(f.rows) - 1))
              = IF 1 <= Len(f.rows) - 1 THEN Len(f.rows) - 1 ELSE 0
        /\ \A i \in 1 .. Len(f.rows) - 1 : SubSeq(f.rows, 1, Len(f.rows) - 1)[i] = f.rows[i]
    BY <1>1, <2>1, SubSeqProperties
  <2>3. Joined(f) = SubSeq(f.rows, 1, Len(f.rows) - 1)
    BY <1>3 DEF Joined
  <2> QED
    BY <1>1, <1>3, <2>2, <2>3
<1> QED
  BY <1>2, <1>3

(* append_sync, and what is left of it when the process is killed. *)
LEMMA AppendedFile ==
    ASSUME NEW f \in File, NEW row \in Row
    PROVE  /\ Appended(f, row) \in File
           /\ Grown(f, Appended(f, row), row)
           /\ Debt(Appended(f, row)) + Len(f.rows) + 1
                 <= Debt(f) + Len(Appended(f, row).rows)
<1> DEFINE rows == IF f.tail = "ended" THEN Append(f.rows, row) ELSE Joined(f)
<1>1. f.rows \in Seq(Row) /\ f.tail \in {"ended", "torn", "whole"} /\ Len(f.rows) \in Nat
  BY DEF File
<1>2. /\ rows \in Seq(Row)
      /\ f.tail = "ended" => Len(rows) = Len(f.rows) + 1
      /\ f.tail = "torn" => Len(rows) = Len(f.rows)
      /\ f.tail = "whole" => Len(rows) >= Len(f.rows) - 1
      /\ \A i \in 1 .. Len(rows) :
            \/ i \in 1 .. Len(f.rows) /\ rows[i] = f.rows[i]
            \/ i = Len(f.rows) + 1 /\ rows[i] = row
  <2>1. CASE f.tail = "ended"
    BY <1>1, <2>1
  <2>2. CASE f.tail # "ended"
    <3>1. rows = Joined(f)
      BY <2>2
    <3> HIDE DEF rows
    <3>2. Len(Joined(f)) \in Nat
      BY JoinedRows
    <3> QED
      BY <1>1, <2>2, <3>1, <3>2, JoinedRows
  <2> QED
    BY <2>1, <2>2
<1>3. Appended(f, row) = [rows |-> rows, tail |-> "ended"]
  BY DEF Appended
<1> HIDE DEF rows
<1>4. Appended(f, row) \in File
  BY <1>2, <1>3 DEF File
<1>5. Appended(f, row).rows = rows /\ Appended(f, row).tail = "ended"
  BY <1>3
<1>6. Grown(f, Appended(f, row), row)
  BY <1>2, <1>5 DEF Grown
<1> QED
  BY <1>1, <1>2, <1>4, <1>5, <1>6 DEF Debt

LEMMA CutShortFile ==
    ASSUME NEW f \in File, NEW row \in Row, NEW g \in CutShort(f, row)
    PROVE  /\ g \in File
           /\ Grown(f, g, row)
           /\ Debt(g) + Len(f.rows) <= Debt(f) + Len(g.rows) + 1
<1>1. f.rows \in Seq(Row) /\ f.tail \in {"ended", "torn", "whole"} /\ Len(f.rows) \in Nat
  BY DEF File
<1>2. CASE g = f
  <2>1. Grown(f, f, row)
    BY <1>1 DEF Grown
  <2>2. Debt(f) \in Nat
    BY DEF Debt
  <2>3. Debt(f) + Len(f.rows) <= Debt(f) + Len(f.rows) + 1
    BY <1>1, <2>2
  <2> QED
    BY <1>2, <2>1, <2>3, Zenon
<1>3. CASE g = [rows |-> Joined(f), tail |-> "torn"]
  <2>1. g \in File
    BY <1>3, JoinedRows DEF File
  <2>2. g.rows = Joined(f) /\ g.tail = "torn"
    BY <1>3
  <2>3. Len(Joined(f)) \in Nat
    BY JoinedRows
  <2>4. Grown(f, g, row)
    BY <1>1, <2>2, <2>3, JoinedRows DEF Grown
  <2> QED
    BY <1>1, <2>1, <2>2, <2>3, <2>4, JoinedRows DEF Debt
<1>4. CASE f.tail = "ended" /\ g = [rows |-> Append(f.rows, row), tail |-> "whole"]
  <2>1. g \in File
    BY <1>1, <1>4 DEF File
  <2>2. g.rows = Append(f.rows, row) /\ g.tail = "whole"
    BY <1>4
  <2>3. Grown(f, g, row)
    BY <1>1, <2>2 DEF Grown
  <2> QED
    BY <1>1, <1>4, <2>1, <2>2, <2>3 DEF Debt
<1> QED
  BY <1>1, <1>2, <1>3, <1>4 DEF CutShort

LEMMA RowsOfFile ==
    ASSUME NEW f \in File
    PROVE  /\ DOMAIN f.rows = 1 .. Len(f.rows)
           /\ RowsOf(f) = {f.rows[i] : i \in 1 .. Len(f.rows)}
           /\ RowsOf(f) \subseteq Row
BY DEF RowsOf, File

LEMMA GrownRows ==
    ASSUME NEW f \in File, NEW g \in File, NEW row, Grown(f, g, row)
    PROVE  RowsOf(g) \subseteq RowsOf(f) \cup {row}
BY RowsOfFile DEF Grown

LEMMA CloseNat == \A m \in Markets : Close(m) \in Nat
BY WeatherAssumption DEF Close, CityDays
-----------------------------------------------------------------------------
(* Steps.                                                                  *)

LEMMA WeatherInitially == WeatherInit => WeatherInv
<1> SUFFICES ASSUME WeatherInit PROVE WeatherInv
  OBVIOUS
<1> USE DEF WeatherInit
<1>1. EmptyFile \in File /\ EmptyFile.rows = << >> /\ EmptyFile.tail = "ended"
  BY DEF EmptyFile, File
<1>2. IdleCollector \in Run /\ IdleCollector.pc = "idle"
  BY DEF IdleCollector, Run, Never
<1>3. IdleResolver \in Resolver /\ IdleResolver.todo = {}
  BY DEF IdleResolver, Resolver
<1>4. WeatherTypes
  BY <1>1, <1>2, <1>3 DEF WeatherTypes
<1>5. RowsOf(tape) = {} /\ RowsOf(resolved) = {}
  BY <1>1, RowsOfFile
<1>6. RunInv /\ FinalInv /\ TodoInv
  BY <1>2, <1>3, <1>5 DEF RunInv, FinalInv, TodoInv
<1>7. ResolvedOnce
  BY <1>1 DEF ResolvedOnce
<1>8. KillInv
  BY <1>1 DEF KillInv, Debt
<1> QED
  BY <1>4, <1>6, <1>7, <1>8 DEF WeatherInv

(* A collector goes on, or starts, without writing to the tape: only its   *)
(* own run has to be looked at.                                            *)
LEMMA CollectorQuiet ==
    ASSUME WeatherInv, NEW c \in Collectors, NEW r \in Run,
           collector' = [collector EXCEPT ![c] = r],
           r.pc # "idle" =>
              /\ r.queue # << >>
              /\ r.now <= clock /\ clock <= r.now + MaxRun
              /\ r.pc \in {"forecast", "append"} => r.now < Close(Head(r.queue)),
           UNCHANGED clock
    PROVE  collector' \in [Collectors -> Run] /\ RunInv'
<1>1. collector \in [Collectors -> Run]
  BY DEF WeatherInv, WeatherTypes
<1>2. collector' \in [Collectors -> Run]
  BY <1>1
<1>3. ASSUME NEW d \in Collectors, collector'[d].pc # "idle"
      PROVE  /\ collector'[d].queue # << >>
             /\ collector'[d].now <= clock /\ clock <= collector'[d].now + MaxRun
             /\ collector'[d].pc \in {"forecast", "append"} =>
                   collector'[d].now < Close(Head(collector'[d].queue))
  <2>1. CASE d = c
    <3>1. collector'[d] = r
      BY <1>1, <2>1
    <3> QED
      BY <1>3, <3>1
  <2>2. CASE d # c
    <3>1. collector'[d] = collector[d]
      BY <1>1, <2>2
    <3> QED
      BY <1>3, <3>1 DEF WeatherInv, RunInv, Front
  <2> QED
    BY <2>1, <2>2
<1> QED
  BY <1>2, <1>3 DEF RunInv, Front

(* The rest of the invariant does not speak of runs. *)
LEMMA QuietStep ==
    ASSUME WeatherInv, collector' \in [Collectors -> Run], RunInv',
           UNCHANGED <<clock, tape, resolved, prints, resolver, written>>,
           kills' \in Nat, kills' >= kills
    PROVE  WeatherInv'
<1>1. WeatherTypes'
  BY DEF WeatherInv, WeatherTypes
<1>2. FinalInv' /\ TodoInv' /\ ResolvedOnce'
  BY DEF WeatherInv, FinalInv, Final, TodoInv, ResolvedOnce, Already
<1>3. KillInv'
  <2>1. Debt(tape) \in Nat /\ Len(tape.rows) \in Nat
    BY DEF Debt, WeatherInv, WeatherTypes, File
  <2>2. Debt(tape)' = Debt(tape)
    BY DEF Debt
  <2> QED
    BY <2>1, <2>2 DEF WeatherInv, WeatherTypes, KillInv
<1> QED
  BY <1>1, <1>2, <1>3 DEF WeatherInv
(* A run that is in bounds goes on to its next market, or ends. *)
LEMMA AdvancedRun ==
    ASSUME NEW r \in Run, r.queue # << >>
    PROVE  /\ Advanced(r) \in Run
           /\ Advanced(r).now = r.now
           /\ Advanced(r).pc \in {"idle", "market"}
           /\ Advanced(r).pc # "idle" => Advanced(r).queue # << >>
<1> DEFINE next == IF Len(r.queue) = 1 THEN "idle" ELSE "market"
<1>1. r.queue \in Seq(Markets) /\ r.now \in Nat /\ r.forecasts \in [CityDays -> Int]
  BY DEF Run
<1>2. /\ Tail(r.queue) \in Seq(Markets)
      /\ Len(r.queue) # 1 => Tail(r.queue) # << >>
  <2>1. Len(r.queue) \in Nat \ {0}
    BY <1>1, EmptySeq
  <2>2. Tail(r.queue) \in Seq(Markets) /\ Len(Tail(r.queue)) = Len(r.queue) - 1
    BY <1>1, HeadTailProperties
  <2>3. Tail(r.queue) = << >> => Len(Tail(r.queue)) = 0
    BY EmptySeq, Zenon
  <2>4. Len(r.queue) # 1 => Len(Tail(r.queue)) # 0
    BY <2>1, <2>2
  <2> QED
    BY <2>2, <2>3, <2>4, Zenon
<1>3. Advanced(r) = [pc |-> next, now |-> r.now, queue |-> Tail(r.queue),
                     forecasts |-> r.forecasts]
  BY DEF Advanced
<1>4. next \in {"idle", "market"} /\ (next # "idle" => Len(r.queue) # 1)
  OBVIOUS
<1> HIDE DEF next
<1>5. Advanced(r) \in Run
  BY <1>1, <1>2, <1>3, <1>4 DEF Run
<1>6. Advanced(r).now = r.now /\ Advanced(r).pc = next /\ Advanced(r).queue = Tail(r.queue)
  BY <1>3
<1> QED
  BY <1>2, <1>4, <1>5, <1>6

(* The invariant of the run a collector is in. *)
LEMMA RunOf ==
    ASSUME WeatherInv, NEW c \in Collectors
    PROVE  /\ collector[c] \in Run
           /\ collector[c].pc # "idle" =>
                /\ collector[c].queue # << >> /\ Front(c) \in Markets
                /\ collector[c].now <= clock /\ clock <= collector[c].now + MaxRun
                /\ collector[c].pc \in {"forecast", "append"} =>
                      collector[c].now < Close(Front(c))
<1>1. collector[c] \in Run
  BY DEF WeatherInv, WeatherTypes
<1>2. collector[c].queue \in Seq(Markets)
  BY <1>1 DEF Run
<1> QED
  BY <1>1, <1>2 DEF WeatherInv, RunInv, Front

LEMMA IdleRun == IdleCollector \in Run /\ IdleCollector.pc = "idle"
BY DEF IdleCollector, Run, Never

(* A step of a run that goes on with r. *)
LEMMA SteppedRun ==
    ASSUME WeatherInv, NEW c \in Collectors, collector[c].pc # "idle",
           NEW r \in Run, Stepped(c, r), r.now = collector[c].now,
           r.pc # "idle" => r.queue # << >>,
           r.pc \in {"forecast", "append"} => r.now < Close(Head(r.queue))
    PROVE  collector' \in [Collectors -> Run] /\ RunInv'
<1>1. collector' = [collector EXCEPT ![c] = IF r.pc = "idle" THEN IdleCollector ELSE r]
      /\ UNCHANGED clock
  BY DEF Stepped
<1>2. r.now <= clock /\ clock <= r.now + MaxRun
  BY RunOf
<1>3. CASE r.pc = "idle"
  BY <1>1, <1>3, IdleRun, CollectorQuiet
<1>4. CASE r.pc # "idle"
  BY <1>1, <1>2, <1>4, CollectorQuiet
<1> QED
  BY <1>3, <1>4

LEMMA DiscoverStep ==
    ASSUME WeatherInv, NEW c \in Collectors, Discover(c)
    PROVE  WeatherInv'
<1> USE WeatherAssumption
<1>1. PICK listing \in Listings :
         collector' = [collector EXCEPT ![c] =
             [pc |-> "market", now |-> clock, queue |-> listing,
              forecasts |-> [d \in CityDays |-> Never]]]
  BY DEF Discover
<1>2. listing \in Seq(Markets) /\ listing # << >>
  <2>1. PICK n \in 1 .. MaxListed : listing \in [1 .. n -> Markets]
    BY DEF Listings
  <2> QED
    BY <2>1
<1> DEFINE r == [pc |-> "market", now |-> clock, queue |-> listing,
                 forecasts |-> [d \in CityDays |-> Never]]
<1>3. collector' = [collector EXCEPT ![c] = r]
  BY <1>1
<1>4. clock \in Nat
  BY DEF WeatherInv, WeatherTypes
<1>5. r \in Run /\ r.queue = listing /\ r.now = clock /\ r.pc = "market"
  BY <1>2, <1>4 DEF Run, Never
<1> HIDE DEF r
<1>6. UNCHANGED <<clock, tape, resolved, prints, resolver, kills, written>>
  BY DEF Discover
<1>7. /\ r.queue # << >>
      /\ r.now <= clock /\ clock <= r.now + MaxRun
      /\ ~ (r.pc \in {"forecast", "append"})
  BY <1>2, <1>4, <1>5
<1>8. collector' \in [Collectors -> Run] /\ RunInv'
  BY <1>3, <1>5, <1>6, <1>7, CollectorQuiet, Zenon
<1> QED
  BY <1>6, <1>8, QuietStep DEF WeatherInv, WeatherTypes

(* The steps of a run between its start and its appends. *)
LEMMA RunningStep ==
    ASSUME WeatherInv, NEW c \in Collectors,
           SkipMarket(c) \/ ReadBook(c) \/ GetForecast(c) \/ ForecastMissing(c)
    PROVE  WeatherInv'
<1>1. collector[c].pc \in {"market", "forecast"} /\ UNCHANGED <<tape, written>>
  BY DEF SkipMarket, ReadBook, GetForecast, ForecastMissing
<1>2. /\ collector[c] \in Run /\ collector[c].queue # << >> /\ Front(c) \in Markets
      /\ collector[c].now <= clock /\ clock <= collector[c].now + MaxRun
  BY <1>1, RunOf
<1>3. UNCHANGED <<clock, resolved, prints, resolver, runs, kills>>
  BY DEF SkipMarket, ReadBook, GetForecast, ForecastMissing, Stepped
<1>4. collector' \in [Collectors -> Run] /\ RunInv'
  <2>1. CASE SkipMarket(c) \/ ForecastMissing(c)
    <3>1. Stepped(c, Advanced(collector[c]))
      BY <2>1 DEF SkipMarket, ForecastMissing
    <3> QED
      BY <1>1, <1>2, <3>1, AdvancedRun, SteppedRun
  <2>2. CASE ReadBook(c)
    <3> DEFINE r == [collector[c] EXCEPT !.pc = "forecast"]
    <3>1. Stepped(c, r) /\ collector[c].now < Close(Front(c))
      BY <2>2 DEF ReadBook
    <3>2. r = [pc |-> "forecast", now |-> collector[c].now, queue |-> collector[c].queue,
               forecasts |-> collector[c].forecasts]
      BY <1>2 DEF Run
    <3> HIDE DEF r
    <3>3. r \in Run /\ r.pc = "forecast" /\ r.now = collector[c].now
          /\ r.queue = collector[c].queue
      BY <1>2, <3>2 DEF Run
    <3> QED
      BY <1>1, <1>2, <3>1, <3>3, SteppedRun DEF Front
  <2>3. CASE GetForecast(c)
    <3> DEFINE day == CityDay[Front(c)]
               forecasts == [collector[c].forecasts EXCEPT ![day] = Issued(c)]
               r == [collector[c] EXCEPT !.forecasts[CityDay[Front(c)]] = Issued(c)]
    <3>1. collector[c].pc = "forecast" /\ collector[c].now < Close(Front(c))
      BY <2>3, RunOf DEF GetForecast
    <3>2. collector[c].forecasts \in [CityDays -> Int] /\ day \in CityDays
      BY <1>2 DEF Run, CityDays
    <3>3. Issued(c) \in Int /\ forecasts \in [CityDays -> Int]
      BY <3>2 DEF Issued, WeatherInv, WeatherTypes
    <3>4. r = [pc |-> collector[c].pc, now |-> collector[c].now, queue |-> collector[c].queue,
               forecasts |-> forecasts]
      BY <1>2 DEF Run
    <3>5. r \in Run /\ r.now = collector[c].now /\ r.queue = collector[c].queue
      BY <1>2, <3>3, <3>4 DEF Run
    <3>6. \/ Stepped(c, Advanced(r))
          \/ Stepped(c, [r EXCEPT !.pc = "append"])
      BY <2>3 DEF GetForecast
    <3> HIDE DEF r
    <3>7. CASE Stepped(c, Advanced(r))
      BY <1>1, <1>2, <3>5, <3>7, AdvancedRun, SteppedRun
    <3>8. CASE Stepped(c, [r EXCEPT !.pc = "append"])
      <4> DEFINE q == [r EXCEPT !.pc = "append"]
      <4>1. q = [pc |-> "append", now |-> r.now, queue |-> r.queue, forecasts |-> r.forecasts]
        BY <3>5 DEF Run
      <4>2. q \in Run /\ q.pc = "append" /\ q.now = r.now /\ q.queue = r.queue
        BY <3>5, <4>1 DEF Run
      <4>3. Stepped(c, q)
        BY <3>8
      <4> HIDE DEF q
      <4> QED
        BY <1>1, <1>2, <3>1, <3>5, <4>2, <4>3, SteppedRun DEF Front
    <3> QED
      BY <3>6, <3>7, <3>8
  <2> QED
    BY <2>1, <2>2, <2>3
<1> QED
  BY <1>1, <1>3, <1>4, QuietStep DEF WeatherInv, WeatherTypes
(* A row that is about to be appended, and its market, which nothing       *)
(* resolved yet: the run is no older than the settle lag.                  *)
LEMMA ObservationIsNew ==
    ASSUME WeatherInv, NEW c \in Collectors, collector[c].pc = "append"
    PROVE  /\ Observation(c) \in Row
           /\ \A done : Final(done) => done.market # Observation(c).market
<1> USE WeatherAssumption
<1>1. /\ collector[c] \in Run /\ Front(c) \in Markets
      /\ clock <= collector[c].now + MaxRun /\ collector[c].now < Close(Front(c))
  BY RunOf
<1>2. collector[c].now \in Nat /\ clock \in Nat /\ Close(Front(c)) \in Nat
  BY <1>1, CloseNat DEF Run, WeatherInv, WeatherTypes
<1>3. Issued(c) \in Int
  <2>1. CityDay[Front(c)] \in CityDays
    BY <1>1 DEF CityDays
  <2>2. collector[c].forecasts[CityDay[Front(c)]] \in Int
    BY <1>1, <2>1 DEF Run
  <2> QED
    BY <1>2, <2>2 DEF Issued
<1>4. Observation(c) \in Row /\ Observation(c).market = Front(c)
  BY <1>1, <1>2, <1>3 DEF Observation, Row
<1>5. ~ (clock >= Close(Front(c)) + SettleLag)
  BY <1>1, <1>2
<1> QED
  BY <1>4, <1>5, Zenon DEF Final

(* A tape that grows by such a row leaves the resolver's rows final. *)
LEMMA TapeGrows ==
    ASSUME WeatherInv, NEW c \in Collectors, collector[c].pc = "append",
           tape' \in File, Grown(tape, tape', Observation(c)),
           UNCHANGED <<clock, resolved, prints, resolver>>
    PROVE  FinalInv' /\ TodoInv' /\ ResolvedOnce'
<1>1. RowsOf(tape') \subseteq RowsOf(tape) \cup {Observation(c)}
  BY GrownRows DEF WeatherInv, WeatherTypes
<1>2. ASSUME NEW done, Final(done) PROVE Final(done)'
  <2>1. done.market # Observation(c).market
    BY <1>2, ObservationIsNew
  <2>2. \A row \in RowsOf(tape') :
           row.market = done.market /\ Lead(row) >= MinLead => row.observed <= done.observed
    BY <1>1, <1>2, <2>1 DEF Final
  <2> QED
    BY <1>2, <2>2 DEF Final, Lead
<1>3. FinalInv'
  BY <1>2 DEF WeatherInv, FinalInv
<1>4. TodoInv' /\ ResolvedOnce'
  BY DEF WeatherInv, TodoInv, ResolvedOnce, Already
<1> QED
  BY <1>3, <1>4

LEMMA AppendStep ==
    ASSUME WeatherInv, NEW c \in Collectors, AppendObservation(c)
    PROVE  WeatherInv'
<1>1. collector[c].pc = "append"
  BY DEF AppendObservation
<1>2. collector[c] \in Run /\ collector[c].queue # << >>
  BY <1>1, RunOf
<1>3. CASE Timely(Observation(c))
  <2>1. /\ tape' = Appended(tape, Observation(c)) /\ written' = written + 1
        /\ Stepped(c, Advanced(collector[c]))
    BY <1>3 DEF AppendObservation
  <2>2. UNCHANGED <<clock, resolved, prints, resolver, kills>>
    BY <2>1 DEF Stepped
  <2>3. collector' \in [Collectors -> Run] /\ RunInv'
    BY <1>1, <1>2, <2>1, AdvancedRun, SteppedRun
  <2>4. /\ tape \in File /\ Len(tape.rows) \in Nat /\ Debt(tape) \in Nat
        /\ written \in Nat /\ kills \in Nat
    BY DEF WeatherInv, WeatherTypes, File, Debt
  <2>5. /\ tape' \in File /\ Grown(tape, tape', Observation(c))
        /\ Debt(tape') + Len(tape.rows) + 1 <= Debt(tape) + Len(tape'.rows)
    BY <1>1, <2>1, <2>4, ObservationIsNew, AppendedFile
  <2>6. WeatherTypes'
    BY <2>1, <2>2, <2>3, <2>4, <2>5 DEF WeatherInv, WeatherTypes
  <2>7. FinalInv' /\ TodoInv' /\ ResolvedOnce'
    BY <1>1, <2>2, <2>5, TapeGrows
  <2>8. KillInv'
    <3>1. Len(tape'.rows) \in Nat /\ Debt(tape') \in Nat
      BY <2>5 DEF File, Debt
    <3>2. written + Debt(tape) <= Len(tape.rows) + kills
      BY DEF WeatherInv, KillInv
    <3>3. PICK owed \in Nat, rows \in Nat :
             owed = Debt(tape) /\ rows = Len(tape.rows)
      BY <2>4, Zenon
    <3>4. PICK owes \in Nat, grown \in Nat :
             owes = Debt(tape') /\ grown = Len(tape'.rows)
      BY <3>1, Zenon
    <3>5. (written + 1) + owes <= grown + kills
      <4>1. owes + rows + 1 <= owed + grown /\ written + owed <= rows + kills
        BY <2>5, <3>2, <3>3, <3>4
      <4> QED
        BY <2>4, <4>1
    <3> QED
      BY <2>1, <2>2, <3>4, <3>5 DEF KillInv
  <2> QED
    BY <2>3, <2>6, <2>7, <2>8 DEF WeatherInv
<1>4. CASE ~ Timely(Observation(c))
  <2>1. Stepped(c, IdleCollector) /\ UNCHANGED <<tape, written>>
    BY <1>4 DEF AppendObservation
  <2>2. /\ UNCHANGED <<clock, resolved, prints, resolver, kills>>
        /\ collector' = [collector EXCEPT ![c] = IdleCollector]
    BY <2>1 DEF Stepped
  <2>3. collector' \in [Collectors -> Run] /\ RunInv'
    BY <2>2, IdleRun, CollectorQuiet
  <2> QED
    BY <2>1, <2>2, <2>3, QuietStep DEF WeatherInv, WeatherTypes
<1> QED
  BY <1>3, <1>4

LEMMA KillCollectorStep ==
    ASSUME WeatherInv, NEW c \in Collectors, KillCollector(c)
    PROVE  WeatherInv'
<1>1. /\ kills' = kills + 1
      /\ collector' = [collector EXCEPT ![c] = IdleCollector]
      /\ UNCHANGED <<clock, resolved, prints, resolver, written>>
  BY DEF KillCollector
<1>2. collector' \in [Collectors -> Run] /\ RunInv'
  BY <1>1, IdleRun, CollectorQuiet
<1>3. CASE tape' = tape
  BY <1>1, <1>2, <1>3, QuietStep DEF WeatherInv, WeatherTypes
<1>4. CASE collector[c].pc = "append" /\ tape' \in CutShort(tape, Observation(c))
  <2>1. /\ tape \in File /\ Len(tape.rows) \in Nat /\ Debt(tape) \in Nat
        /\ written \in Nat /\ kills \in Nat
    BY DEF WeatherInv, WeatherTypes, File, Debt
  <2>2. /\ tape' \in File /\ Grown(tape, tape', Observation(c))
        /\ Debt(tape') + Len(tape.rows) <= Debt(tape) + Len(tape'.rows) + 1
    BY <1>4, <2>1, ObservationIsNew, CutShortFile
  <2>3. WeatherTypes'
    BY <1>1, <1>2, <2>1, <2>2 DEF WeatherInv, WeatherTypes
  <2>4. FinalInv' /\ TodoInv' /\ ResolvedOnce'
    BY <1>1, <1>4, <2>2, TapeGrows
  <2>5. KillInv'
    <3>1. Len(tape'.rows) \in Nat /\ Debt(tape') \in Nat
      BY <2>2 DEF File, Debt
    <3>2. written + Debt(tape) <= Len(tape.rows) + kills
      BY DEF WeatherInv, KillInv
    <3>3. Debt(tape') + Len(tape.rows) <= Debt(tape) + Len(tape'.rows) + 1
      BY <2>2
    <3>4. written + Debt(tape') <= Len(tape'.rows) + (kills + 1)
      <4> DEFINE d == Debt(tape) n == Len(tape.rows) e == Debt(tape') m == Len(tape'.rows)
      <4>1. d \in Nat /\ n \in Nat /\ e \in Nat /\ m \in Nat
        BY <2>1, <3>1
      <4>2. written + d <= n + kills /\ e + n <= d + m + 1
        BY <3>2, <3>3
      <4> HIDE DEF d, n, e, m
      <4>3. written + e <= m + (kills + 1)
        BY <2>1, <4>1, <4>2
      <4> QED
        BY <4>3 DEF e, m
    <3> QED
      BY <1>1, <3>4 DEF KillInv, Debt
  <2> QED
    BY <1>2, <2>3, <2>4, <2>5 DEF WeatherInv
<1> QED
  BY <1>3, <1>4 DEF KillCollector
(* select_decision_rows: one row of a market, and no eligible one later. *)
LEMMA DecisionRow ==
    ASSUME NEW rows \in Seq(Row), NEW p \in DecisionRows(rows)
    PROVE  /\ p \in Row
           /\ \A j \in 1 .. Len(rows) :
                 rows[j].market = p.market /\ Lead(rows[j]) >= MinLead
                 => rows[j].observed <= p.observed
           /\ \A q \in DecisionRows(rows) : p.market = q.market => p = q
<1> DEFINE eligible == {i \in 1 .. Len(rows) : Lead(rows[i]) >= MinLead}
           Before(i, j) == \/ rows[i].observed > rows[j].observed
                           \/ rows[i].observed = rows[j].observed /\ i <= j
           First(k) == \A j \in eligible : rows[j].market = rows[k].market => Before(k, j)
<1>1. DecisionRows(rows) = {rows[i] : i \in {k \in eligible : First(k)}}
  BY DEF DecisionRows
<1>2. PICK k \in eligible : First(k) /\ p = rows[k]
  BY <1>1
<1>3. \A i \in 1 .. Len(rows) : rows[i] \in Row /\ rows[i].observed \in Nat
  <2> TAKE i \in 1 .. Len(rows)
  <2>1. rows[i] \in Row
    OBVIOUS
  <2> QED
    BY <2>1 DEF Row
<1>4. ASSUME NEW j \in 1 .. Len(rows), rows[j].market = p.market, Lead(rows[j]) >= MinLead
      PROVE  rows[j].observed <= p.observed
  <2>1. j \in eligible
    BY <1>4
  <2>2. Before(k, j)
    BY <1>2, <1>4, <2>1
  <2>3. rows[j].observed \in Nat /\ rows[k].observed \in Nat
    BY <1>3
  <2> QED
    BY <1>2, <2>2, <2>3
<1>5. ASSUME NEW q \in DecisionRows(rows), p.market = q.market
      PROVE  p = q
  <2>1. PICK j \in eligible : First(j) /\ q = rows[j]
    BY <1>1
  <2>2. Before(k, j) /\ Before(j, k)
    BY <1>2, <1>5, <2>1
  <2>3. rows[j].observed \in Nat /\ rows[k].observed \in Nat
    BY <1>3
  <2>4. j = k
    BY <2>2, <2>3
  <2> QED
    BY <1>2, <2>1, <2>4
<1> QED
  BY <1>2, <1>3, <1>4, <1>5

(* The resolver changes neither the tape nor the runs, so that only its    *)
(* own rows have to be looked at.                                          *)
LEMMA ResolverQuiet ==
    ASSUME WeatherInv,
           UNCHANGED <<clock, tape, collector, written>>,
           kills' \in Nat, kills' >= kills,
           resolved' \in File, prints' \in [Months -> SUBSET Row], resolver' \in Resolver,
           \A done \in resolver'.todo \cup RowsOf(resolved') : Final(done),
           \A mo \in Months : \A done \in prints'[mo] : Final(done),
           TodoInv', ResolvedOnce'
    PROVE  WeatherInv'
<1>1. WeatherTypes'
  BY DEF WeatherInv, WeatherTypes
<1>2. RunInv'
  BY DEF WeatherInv, RunInv, Front
<1>3. \A done : Final(done) => Final(done)'
  BY DEF Final
<1>4. FinalInv'
  BY <1>3 DEF FinalInv
<1>5. KillInv'
  <2>1. Debt(tape) \in Nat /\ Len(tape.rows) \in Nat
    BY DEF Debt, WeatherInv, WeatherTypes, File
  <2>2. Debt(tape)' = Debt(tape)
    BY DEF Debt
  <2> QED
    BY <2>1, <2>2 DEF WeatherInv, WeatherTypes, KillInv
<1> QED
  BY <1>1, <1>2, <1>4, <1>5 DEF WeatherInv

LEMMA BeginResolveStep == WeatherInv /\ BeginResolve => WeatherInv'
<1> SUFFICES ASSUME WeatherInv, BeginResolve PROVE WeatherInv'
  OBVIOUS
<1> DEFINE todo == {row \in DecisionRows(tape.rows) : row.market \notin Already /\ Due(row)}
<1>1. /\ resolver' = [pc |-> "resolve", months |-> {}, todo |-> todo]
      /\ UNCHANGED <<clock, tape, resolved, prints, collector, kills, written>>
  BY DEF BeginResolve
<1>2. tape \in File /\ tape.rows \in Seq(Row) /\ resolved \in File
      /\ prints \in [Months -> SUBSET Row] /\ kills \in Nat
  BY DEF WeatherInv, WeatherTypes, File
<1>3. todo \subseteq Row /\ \A p \in todo : Final(p)
  <2> SUFFICES ASSUME NEW p \in todo PROVE p \in Row /\ Final(p)
    OBVIOUS
  <2>1. /\ p \in Row
        /\ \A j \in 1 .. Len(tape.rows) :
              tape.rows[j].market = p.market /\ Lead(tape.rows[j]) >= MinLead
              => tape.rows[j].observed <= p.observed
    BY <1>2, DecisionRow
  <2>2. RowsOf(tape) = {tape.rows[i] : i \in 1 .. Len(tape.rows)}
    BY <1>2, RowsOfFile
  <2> QED
    BY <2>1, <2>2 DEF Final, Due
<1>4. \A p, q \in todo : p.market = q.market => p = q
  BY <1>2, DecisionRow
<1>5. \A p \in todo : p.market \notin Already
  OBVIOUS
<1> HIDE DEF todo
<1>6. resolver' \in Resolver /\ resolver'.todo = todo
  BY <1>1, <1>3 DEF Resolver
<1>7. TodoInv'
  BY <1>1, <1>4, <1>5, <1>6 DEF TodoInv, Already
<1>8. ResolvedOnce'
  BY <1>1 DEF WeatherInv, ResolvedOnce
<1> QED
  BY <1>1, <1>2, <1>3, <1>6, <1>7, <1>8, ResolverQuiet DEF WeatherInv, FinalInv
(* The resolved file grows by a row that was to be resolved. *)
LEMMA ResolvedGrows ==
    ASSUME WeatherInv, NEW row \in resolver.todo, NEW g \in File, Grown(resolved, g, row)
    PROVE  /\ RowsOf(g) \subseteq RowsOf(resolved) \cup {row}
           /\ \A i, j \in DOMAIN g.rows : g.rows[i].market = g.rows[j].market => i = j
<1>1. resolved \in File
  BY DEF WeatherInv, WeatherTypes
<1>2. DOMAIN g.rows = 1 .. Len(g.rows) /\ DOMAIN resolved.rows = 1 .. Len(resolved.rows)
  BY <1>1, RowsOfFile
<1>3. \A i \in 1 .. Len(resolved.rows) : resolved.rows[i].market # row.market
  BY <1>1, RowsOfFile DEF WeatherInv, TodoInv, Already
<1>4. \A i, j \in 1 .. Len(resolved.rows) :
         resolved.rows[i].market = resolved.rows[j].market => i = j
  BY <1>2 DEF WeatherInv, ResolvedOnce
<1>5. \A i, j \in 1 .. Len(g.rows) : g.rows[i].market = g.rows[j].market => i = j
  BY <1>3, <1>4 DEF Grown
<1>6. RowsOf(g) \subseteq RowsOf(resolved) \cup {row}
  BY <1>1, GrownRows
<1> QED
  BY <1>2, <1>5, <1>6

LEMMA ResolveRowStep ==
    ASSUME WeatherInv, NEW row \in resolver.todo, NEW official, ResolveRow(row, official)
    PROVE  WeatherInv'
<1>1. /\ resolved' \in {resolved, Appended(resolved, row)}
      /\ resolver' = [resolver EXCEPT !.todo = @ \ {row}]
      /\ UNCHANGED <<clock, tape, prints, collector, kills, written>>
  BY DEF ResolveRow
<1>2. /\ resolved \in File /\ prints \in [Months -> SUBSET Row] /\ kills \in Nat
      /\ resolver \in Resolver /\ resolver.todo \subseteq Row
  BY DEF WeatherInv, WeatherTypes, Resolver
<1>3. resolver' = [pc |-> resolver.pc, todo |-> resolver.todo \ {row},
                   months |-> resolver.months]
  BY <1>1, <1>2 DEF Resolver
<1>4. resolver' \in Resolver /\ resolver'.todo = resolver.todo \ {row}
  BY <1>2, <1>3 DEF Resolver
<1>5. resolved' \in File /\ (resolved' = resolved \/ Grown(resolved, resolved', row))
  BY <1>1, <1>2, AppendedFile
<1>6. /\ RowsOf(resolved') \subseteq RowsOf(resolved) \cup {row}
      /\ \A i, j \in DOMAIN resolved'.rows :
            resolved'.rows[i].market = resolved'.rows[j].market => i = j
  BY <1>5, ResolvedGrows DEF WeatherInv, ResolvedOnce
<1>7. ResolvedOnce'
  BY <1>1, <1>6 DEF WeatherInv, ResolvedOnce
<1>8. TodoInv'
  <2>1. \A p \in resolver'.todo : p.market # row.market /\ p.market \notin Already
    BY <1>4 DEF WeatherInv, TodoInv
  <2>2. \A p \in resolver'.todo : p.market \notin {r.market : r \in RowsOf(resolved')}
    BY <1>6, <2>1 DEF Already
  <2> QED
    BY <1>4, <2>2 DEF WeatherInv, TodoInv, Already
<1>9. \A done \in resolver'.todo \cup RowsOf(resolved') : Final(done)
  BY <1>4, <1>6 DEF WeatherInv, FinalInv
<1> QED
  BY <1>1, <1>2, <1>4, <1>5, <1>7, <1>8, <1>9, ResolverQuiet DEF WeatherInv, FinalInv

(* The prints are written from the resolved file as it is. *)
LEMMA PrintStep ==
    ASSUME WeatherInv, BeginPrints \/ \E mo \in Months : WritePrint(mo)
    PROVE  WeatherInv'
<1>1. UNCHANGED <<clock, tape, resolved, collector, kills, written>>
  BY DEF BeginPrints, WritePrint
<1>2. /\ resolved \in File /\ prints \in [Months -> SUBSET Row] /\ kills \in Nat
      /\ resolver \in Resolver /\ resolver.todo \subseteq Row
      /\ resolver.months \subseteq Months
  BY DEF WeatherInv, WeatherTypes, Resolver
<1>3. IdleResolver \in Resolver /\ IdleResolver.todo = {}
  BY DEF IdleResolver, Resolver
<1>4. resolver' \in Resolver /\ resolver'.todo \subseteq resolver.todo
  <2>1. CASE resolver' = IdleResolver
    BY <1>3, <2>1
  <2>2. CASE \E months \in SUBSET Months :
                resolver' = [resolver EXCEPT !.pc = "print", !.months = months]
    <3>1. PICK months \in SUBSET Months :
             resolver' = [resolver EXCEPT !.pc = "print", !.months = months]
      BY <2>2
    <3>2. resolver' = [pc |-> "print", todo |-> resolver.todo, months |-> months]
      BY <1>2, <3>1 DEF Resolver
    <3> QED
      BY <1>2, <3>2 DEF Resolver
  <2>3. CASE \E mo \in Months : resolver' = [resolver EXCEPT !.months = @ \ {mo}]
    <3>1. PICK mo \in Months : resolver' = [resolver EXCEPT !.months = @ \ {mo}]
      BY <2>3
    <3>2. resolver' = [pc |-> resolver.pc, todo |-> resolver.todo,
                       months |-> resolver.months \ {mo}]
      BY <1>2, <3>1 DEF Resolver
    <3> QED
      BY <1>2, <3>2 DEF Resolver
  <2>4. CASE BeginPrints
    BY <2>1, <2>2, <2>4 DEF BeginPrints
  <2>5. CASE \E mo \in Months : WritePrint(mo)
    BY <2>1, <2>3, <2>5 DEF WritePrint
  <2> QED
    BY <2>4, <2>5
<1>5. prints' = prints \/ \E mo \in Months :
         prints' = [prints EXCEPT ![mo] = PrintOf(mo, RowsOf(resolved))]
  BY DEF BeginPrints, WritePrint
<1>6. \A mo \in Months : PrintOf(mo, RowsOf(resolved)) \subseteq RowsOf(resolved)
  BY DEF PrintOf
<1>7. RowsOf(resolved) \subseteq Row
  BY <1>2, RowsOfFile
<1>8. /\ prints' \in [Months -> SUBSET Row]
      /\ \A mo \in Months : prints'[mo] = prints[mo] \/ prints'[mo] \subseteq RowsOf(resolved)
  BY <1>2, <1>5, <1>6, <1>7
<1>9. \A p, q \in RowsOf(resolved) : p.market = q.market => p = q
  BY <1>2, RowsOfFile DEF WeatherInv, ResolvedOnce
<1>10. ResolvedOnce'
  BY <1>1, <1>8, <1>9 DEF WeatherInv, ResolvedOnce
<1>11. TodoInv'
  BY <1>1, <1>4 DEF WeatherInv, TodoInv, Already
<1>12. \A done \in resolver'.todo \cup RowsOf(resolved') : Final(done)
  BY <1>1, <1>4 DEF WeatherInv, FinalInv
<1>13. \A mo \in Months : \A done \in prints'[mo] : Final(done)
  BY <1>8 DEF WeatherInv, FinalInv
<1> QED
  BY <1>1, <1>2, <1>4, <1>8, <1>10, <1>11, <1>12, <1>13, ResolverQuiet

LEMMA KillResolverStep == WeatherInv /\ KillResolver => WeatherInv'
<1> SUFFICES ASSUME WeatherInv, KillResolver PROVE WeatherInv'
  OBVIOUS
<1>1. /\ kills' = kills + 1 /\ resolver' = IdleResolver
      /\ UNCHANGED <<clock, tape, collector, written>>
      /\ resolved' = resolved \/ \E row \in resolver.todo : resolved' \in CutShort(resolved, row)
      /\ prints' = prints \/ \E mo \in resolver.months : prints' = [prints EXCEPT ![mo] = {}]
  BY DEF KillResolver
<1>2. /\ resolved \in File /\ prints \in [Months -> SUBSET Row] /\ kills \in Nat
      /\ resolver.todo \subseteq Row /\ resolver.months \subseteq Months
  BY DEF WeatherInv, WeatherTypes, Resolver
<1>3. IdleResolver \in Resolver /\ IdleResolver.todo = {}
  BY DEF IdleResolver, Resolver
<1>4. /\ resolved' \in File
      /\ \A done \in RowsOf(resolved') : Final(done)
      /\ \A i, j \in DOMAIN resolved'.rows :
            resolved'.rows[i].market = resolved'.rows[j].market => i = j
  <2>1. CASE resolved' = resolved
    BY <1>2, <2>1 DEF WeatherInv, FinalInv, ResolvedOnce
  <2>2. CASE \E row \in resolver.todo : resolved' \in CutShort(resolved, row)
    <3>1. PICK row \in resolver.todo : resolved' \in CutShort(resolved, row)
      BY <2>2
    <3>2. row \in Row
      BY <1>2
    <3>3. resolved' \in File /\ Grown(resolved, resolved', row)
      BY <1>2, <3>1, <3>2, CutShortFile
    <3> QED
      BY <3>3, ResolvedGrows DEF WeatherInv, FinalInv
  <2> QED
    BY <1>1, <2>1, <2>2
<1>5. /\ prints' \in [Months -> SUBSET Row]
      /\ \A mo \in Months : prints'[mo] = prints[mo] \/ prints'[mo] = {}
  BY <1>1, <1>2
<1>6. ResolvedOnce'
  BY <1>4, <1>5 DEF WeatherInv, ResolvedOnce
<1>7. TodoInv'
  BY <1>1, <1>3 DEF TodoInv
<1>8. \A mo \in Months : \A done \in prints'[mo] : Final(done)
  BY <1>5 DEF WeatherInv, FinalInv
<1>9. kills' \in Nat /\ kills' >= kills
  BY <1>1, <1>2
<1>10. \A done \in resolver'.todo \cup RowsOf(resolved') : Final(done)
  BY <1>1, <1>3, <1>4
<1>11. resolver' \in Resolver
  BY <1>1, <1>3
<1> QED
  BY <1>1, <1>4, <1>5, <1>6, <1>7, <1>8, <1>9, <1>10, <1>11, ResolverQuiet

(* Time passes: what was final stays so. *)
LEMMA TickStep == WeatherInv /\ Tick => WeatherInv'
<1> SUFFICES ASSUME WeatherInv, Tick PROVE WeatherInv'
  OBVIOUS
<1> USE WeatherAssumption
<1>1. /\ clock \in Nat /\ clock' = clock + 1
      /\ \A c \in Collectors : collector[c].pc # "idle" => clock < collector[c].now + MaxRun
      /\ UNCHANGED <<tape, resolved, prints, collector, resolver, kills, written>>
  BY DEF Tick, WeatherInv, WeatherTypes
<1>2. WeatherTypes'
  BY <1>1 DEF WeatherInv, WeatherTypes
<1>3. RunInv'
  <2> SUFFICES ASSUME NEW c \in Collectors, collector[c].pc # "idle"
               PROVE  collector[c].now <= clock' /\ clock' <= collector[c].now + MaxRun
    BY <1>1 DEF WeatherInv, RunInv, Front
  <2>1. collector[c].now \in Nat /\ collector[c].now <= clock
    BY RunOf DEF Run
  <2> QED
    BY <1>1, <2>1
<1>4. ASSUME NEW done \in Row, Final(done) PROVE Final(done)'
  <2>1. Close(done.market) \in Nat
    BY CloseNat DEF Row
  <2>2. clock' >= Close(done.market) + SettleLag
    BY <1>1, <1>4, <2>1 DEF Final
  <2> QED
    BY <1>1, <1>4, <2>2 DEF Final
<1>5. /\ resolver.todo \subseteq Row /\ RowsOf(resolved) \subseteq Row
      /\ prints \in [Months -> SUBSET Row]
  BY RowsOfFile DEF WeatherInv, WeatherTypes, Resolver
<1>6. FinalInv'
  BY <1>1, <1>4, <1>5 DEF WeatherInv, FinalInv
<1>7. TodoInv' /\ ResolvedOnce' /\ KillInv'
  BY <1>1 DEF WeatherInv, TodoInv, ResolvedOnce, Already, KillInv, Debt
<1> QED
  BY <1>2, <1>3, <1>6, <1>7 DEF WeatherInv
-----------------------------------------------------------------------------
(* Every step of the collectors, of the resolver and of a kill keeps the   *)
(* invariant (collect_cli.py, tape.py, resolve_cli.py).                    *)
THEOREM WeatherInvariance == WeatherSpec => []WeatherInv
<1>1. WeatherInv /\ [WeatherNext]_weatherVars => WeatherInv'
  <2> SUFFICES ASSUME WeatherInv, [WeatherNext]_weatherVars PROVE WeatherInv'
    OBVIOUS
  <2>1. ASSUME NEW c \in Collectors, Discover(c) \/ CollectorStep(c) \/ KillCollector(c)
        PROVE  WeatherInv'
    BY <2>1, DiscoverStep, RunningStep, AppendStep, KillCollectorStep DEF CollectorStep
  <2>2. CASE BeginResolve \/ ResolverStep \/ KillResolver
    BY <2>2, BeginResolveStep, ResolveRowStep, PrintStep, KillResolverStep DEF ResolverStep
  <2>3. CASE Tick
    BY <2>3, TickStep
  <2>4. CASE UNCHANGED weatherVars
    BY <2>4 DEF weatherVars, WeatherInv, WeatherTypes, RunInv, Front, FinalInv, Final, TodoInv,
       ResolvedOnce, Already, KillInv, Debt
  <2> QED
    BY <2>1, <2>2, <2>3, <2>4 DEF WeatherNext
<1> QED
  BY <1>1, WeatherInitially, PTL DEF WeatherSpec

(* A resolved or printed row is the latest observation of its market with  *)
(* enough lead, and no run still under way can bring a later one: this is  *)
(* what the settle lag is for (select_decision_rows, resolve_tape).        *)
THEOREM DecisionsStand == WeatherSpec => []DecisionStands
<1>1. WeatherInv => DecisionStands
  BY DEF WeatherInv, FinalInv, Final, DecisionStands
<1> QED
  BY <1>1, WeatherInvariance, PTL

(* No market is resolved or printed twice, whatever the killed runs of the *)
(* resolver left in its file (resolved_market_ids).                        *)
THEOREM NeverResolvedTwice == WeatherSpec => []ResolvedOnce
<1>1. WeatherInv => ResolvedOnce
  BY DEF WeatherInv
<1> QED
  BY <1>1, WeatherInvariance, PTL

(* The rows whose append returned and that no reader sees are no more than *)
(* the processes killed (append_sync, _read_jsonl).                        *)
THEOREM KillsCostOneRow == WeatherSpec => []KillCostsOneRow
<1>1. WeatherInv => KillCostsOneRow
  <2> SUFFICES ASSUME WeatherInv PROVE KillCostsOneRow
    OBVIOUS
  <2>1. /\ Debt(tape) \in Nat /\ Len(tape.rows) \in Nat
        /\ written \in Nat /\ kills \in Nat
    BY DEF Debt, WeatherInv, WeatherTypes, File
  <2>2. written + Debt(tape) <= Len(tape.rows) + kills
    BY DEF WeatherInv, KillInv
  <2> QED
    BY <2>1, <2>2 DEF KillCostsOneRow
<1> QED
  BY <1>1, WeatherInvariance, PTL
=============================================================================
