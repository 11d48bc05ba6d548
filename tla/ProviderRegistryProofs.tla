----------------------- MODULE ProviderRegistryProofs -----------------------
(***************************************************************************)
(* Proofs about ProviderRegistry, for every set of keys, timeout, failure  *)
(* threshold, cool-down, quota and time to live: the quotas are kept, the  *)
(* breaker holds calls back, and nothing stale is served.                  *)
(***************************************************************************)
EXTENDS ProviderRegistry, WellFoundedInduction, TLAPS

Call == [sent : Nat, ended : Int, ok : BOOLEAN]
Entry == [at : Nat, expires : Int]
Served == [from : {"none", "provider", "cache", "last_good"}, key : Keys, at : Nat]

RegistryTypes ==
    /\ clock \in Nat /\ started \in Nat /\ key \in Keys
    /\ waiting \in BOOLEAN
    /\ state \in {"closed", "open", "half_open"}
    /\ consecutiveFailures \in Nat /\ openedAt \in Int
    /\ popped \in Nat /\ day \in Int /\ dayCount \in Nat
    /\ cache \in [Keys -> Entry] /\ lastGood \in [Keys -> Entry]
    /\ log \in Seq(Call)
    /\ newest \in [Keys -> Int]
    /\ served \in Served

(* The call that waits is the last one, and within its timeout. *)
CallInv ==
    waiting => Len(log) > 0 /\ started <= clock /\ clock <= started + Timeout

(* How many calls of the log have ended. *)
Done == IF waiting THEN Len(log) - 1 ELSE Len(log)

(* _consecutive_failures counts all the failures since the last answer,    *)
(* and at the threshold _opened_at is the end of the last of them: a       *)
(* breaker that is half-open by then has seen its cool-down.               *)
BreakerInv ==
    /\ consecutiveFailures <= Done
    /\ consecutiveFailures < Done => log[Done - consecutiveFailures].ok
    /\ consecutiveFailures >= Threshold =>
          /\ openedAt = log[Done].ended /\ openedAt >= 0
          /\ state \in {"open", "half_open"}
          /\ waiting => state = "half_open"
          /\ state = "half_open" => clock - openedAt >= Cooldown

(* A call that left _minute_calls is older than the window. *)
MinuteInv ==
    /\ popped <= Len(log)
    /\ \A i \in 1 .. popped : log[i].sent < clock - Minute

(* _day_count counts all the calls of _day, the last day with a call or a  *)
(* refusal.                                                                *)
DayInv ==
    /\ day <= Today
    /\ dayCount <= Len(log)
    /\ \A i \in 1 .. Len(log) : log[i].sent \div Day <= day
    /\ \A i \in 1 .. Len(log) - dayCount : log[i].sent \div Day < day

(* An entry of a store is the latest payload of its key and its window     *)
(* runs from no later than the payload.                                    *)
StoreInv(store, ttl) ==
    \A k \in Keys : store[k].expires # NoTime =>
        /\ ttl > 0
        /\ store[k].at = newest[k]
        /\ store[k].expires <= store[k].at + ttl

StoresInv == StoreInv(cache, CacheTTL) /\ StoreInv(lastGood, LastGoodTTL)

QuotaInv == MinuteInv /\ DayInv /\ QuotaKept
RegistryInv ==
    /\ RegistryTypes /\ CallInv
    /\ BreakerInv /\ BreakerHolds
    /\ QuotaInv
    /\ StoresInv /\ ServedFresh

-----------------------------------------------------------------------------
(* A set of natural numbers that is not empty has a least member. *)
LEMMA LeastNatural ==
    ASSUME NEW T \in SUBSET Nat, T # {}
    PROVE  \E x \in T : \A y \in T : x <= y
<1> DEFINE R == OpToRel(<, Nat)
<1>1. IsWellFoundedOn(R, Nat)
  BY NatLessThanWellFounded
<1>2. \A x, y \in Nat : x < y => <<x, y>> \in R
  BY DEF OpToRel
<1> HIDE DEF R
<1>3. \E x \in T : \A y \in T : ~ (<<y, x>> \in R)
  BY <1>1, WFMin
<1>4. \E x \in T : \A y \in T : ~ (y < x)
  BY <1>2, <1>3, Zenon
<1>5. \A x, y \in Nat : ~ (y < x) => x <= y
  BY SMT
<1> QED
  BY <1>4, <1>5, Zenon

LEMMA DivMonotone ==
    ASSUME NEW a \in Nat, NEW b \in Nat, a <= b, NEW d \in Nat \ {0}
    PROVE  a \div d <= b \div d /\ a \div d \in Nat
OBVIOUS

(* The loop of _reserve_quota ends: it pops the calls older than the       *)
(* window up to the first that is not.                                     *)
LEMMA PoppedNowPops ==
    ASSUME RegistryTypes, popped <= Len(log)
    PROVE  /\ PoppedNow \in popped .. Len(log)
           /\ \A i \in popped + 1 .. PoppedNow : Outdated(i)
<1> DEFINE T == {p \in popped .. Len(log) : p < Len(log) => ~ Outdated(p + 1)}
<1>1. popped \in Nat /\ Len(log) \in Nat
  BY DEF RegistryTypes
<1>2. Len(log) \in T /\ T \subseteq Nat
  BY <1>1
<1>3. PICK p \in T : \A q \in T : p <= q
  BY <1>2, LeastNatural
<1>4. \A i \in popped + 1 .. p : Outdated(i)
  <2> SUFFICES ASSUME NEW i \in popped + 1 .. p, ~ Outdated(i) PROVE FALSE
    OBVIOUS
  <2>1. i - 1 \in popped .. Len(log) /\ i - 1 < Len(log) /\ (i - 1) + 1 = i
    BY <1>1, <1>3
  <2>2. i - 1 \in T
    BY <2>1
  <2> QED
    BY <1>1, <1>3, <2>1, <2>2
<1>5. \E q \in popped .. Len(log) :
         /\ \A i \in popped + 1 .. q : Outdated(i)
         /\ q < Len(log) => ~ Outdated(q + 1)
  BY <1>3, <1>4
<1> QED
  BY <1>5 DEF PoppedNow

LEMMA CallTypes ==
    ASSUME NEW calls \in Seq(Call), NEW i \in 1 .. Len(calls)
    PROVE  calls[i].sent \in Nat /\ calls[i].ended \in Int /\ calls[i].ok \in BOOLEAN
<1>1. calls[i] \in Call
  OBVIOUS
<1> QED
  BY <1>1 DEF Call

(* The end of a call changes the last entry of the log and no other. *)
LEMMA EndedLog ==
    ASSUME RegistryTypes, Len(log) > 0, NEW ok \in BOOLEAN, Ended(ok)
    PROVE  /\ log' \in Seq(Call) /\ Len(log') = Len(log)
           /\ \A i \in 1 .. Len(log) - 1 : log'[i] = log[i]
           /\ \A i \in 1 .. Len(log) : log'[i].sent = log[i].sent
           /\ log'[Len(log)].ended = clock /\ log'[Len(log)].ok = ok
<1> DEFINE last == [sent |-> log[Len(log)].sent, ended |-> clock, ok |-> ok]
<1>1. log \in Seq(Call) /\ clock \in Nat /\ Len(log) \in 1 .. Len(log)
  BY DEF RegistryTypes
<1>2. last \in Call
  BY <1>1, CallTypes DEF Call
<1>3. log' = [log EXCEPT ![Len(log)] = last]
  BY DEF Ended
<1>4. last.sent = log[Len(log)].sent /\ last.ended = clock /\ last.ok = ok
  OBVIOUS
<1> HIDE DEF last
<1> QED
  BY <1>1, <1>2, <1>3, <1>4

(* A call that leaves adds an entry to the log. *)
LEMMA SentLog ==
    ASSUME RegistryTypes, NEW k \in Keys, Send(k)
    PROVE  /\ log' \in Seq(Call) /\ Len(log') = Len(log) + 1
           /\ \A i \in 1 .. Len(log) : log'[i] = log[i]
           /\ log'[Len(log) + 1].sent = clock
BY DEF RegistryTypes, Call, Send, NoTime
LEMMA RegistryInitially == RegistryInit => RegistryInv
<1> SUFFICES ASSUME RegistryInit PROVE RegistryInv
  OBVIOUS
<1> USE RegistryAssumption DEF RegistryInit, NoTime, Miss
<1>1. RegistryTypes
  <2>1. Miss \in Entry
    BY DEF Entry
  <2>2. cache \in [Keys -> Entry] /\ lastGood \in [Keys -> Entry]
    BY <2>1, Zenon
  <2>3. served \in Served
    BY DEF Served
  <2>4. log \in Seq(Call) /\ newest \in [Keys -> Int]
    OBVIOUS
  <2> QED
    BY <2>2, <2>3, <2>4 DEF RegistryTypes
<1>2. CallInv /\ BreakerInv /\ BreakerHolds
  BY DEF CallInv, BreakerInv, BreakerHolds, Done
<1>3. QuotaInv
  <2>1. Today \in Nat
    BY DivMonotone DEF Today
  <2> QED
    BY <2>1 DEF QuotaInv, MinuteInv, DayInv, QuotaKept
<1>4. StoresInv /\ ServedFresh
  BY DEF StoresInv, StoreInv, ServedFresh
<1> QED
  BY <1>1, <1>2, <1>3, <1>4 DEF RegistryInv

(* Time passes. *)
LEMMA TickStep == RegistryInv /\ Tick => RegistryInv'
<1> SUFFICES ASSUME RegistryInv, Tick PROVE RegistryInv'
  OBVIOUS
<1> USE RegistryAssumption DEF Tick, breaker, quota, stores
<1>1. RegistryTypes'
  BY DEF RegistryInv, RegistryTypes, Served
<1>2. CallInv' /\ BreakerInv' /\ BreakerHolds'
  BY DEF RegistryInv, RegistryTypes, CallInv, BreakerInv, BreakerHolds, Done
<1>3. clock \in Nat /\ clock' \in Nat /\ clock <= clock'
  BY DEF RegistryInv, RegistryTypes
<1>4. Today <= Today' /\ Today \in Nat /\ Today' \in Nat
  BY <1>3, DivMonotone DEF Today
<1>5. QuotaInv'
  <2>1. MinuteInv'
    <3> SUFFICES ASSUME NEW i \in 1 .. popped PROVE log[i].sent < clock' - Minute
      BY DEF RegistryInv, QuotaInv, MinuteInv
    <3>1. log[i].sent < clock - Minute /\ i \in 1 .. Len(log)
      BY DEF RegistryInv, RegistryTypes, QuotaInv, MinuteInv
    <3>2. log[i].sent \in Nat
      BY <3>1, CallTypes DEF RegistryInv, RegistryTypes
    <3> QED
      BY <1>3, <3>1, <3>2
  <2>2. day \in Int /\ UNCHANGED <<day, dayCount, log>>
    BY DEF RegistryInv, RegistryTypes
  <2>3. day' <= Today'
    BY <1>4, <2>2 DEF RegistryInv, QuotaInv, DayInv
  <2>4. DayInv'
    BY <2>2, <2>3 DEF RegistryInv, QuotaInv, DayInv
  <2>5. QuotaKept'
    BY DEF RegistryInv, QuotaInv, QuotaKept
  <2> QED
    BY <2>1, <2>4, <2>5 DEF QuotaInv
<1>6. StoresInv' /\ ServedFresh'
  BY DEF RegistryInv, RegistryTypes, StoresInv, StoreInv, ServedFresh, Served
<1> QED
  BY <1>1, <1>2, <1>5, <1>6 DEF RegistryInv
(* The quota window as _reserve_quota leaves it, sent or refused. *)
LEMMA ReservedQuota ==
    ASSUME RegistryInv, UNCHANGED clock,
           popped' = PoppedNow, day' = Today
    PROVE  /\ popped' \in Nat /\ popped' <= Len(log)
           /\ \A i \in 1 .. popped' : log[i].sent < clock - Minute
           /\ CountToday \in Nat /\ CountToday <= Len(log)
           /\ Today \in Nat
           /\ \A i \in 1 .. Len(log) : log[i].sent \div Day <= Today
           /\ \A i \in 1 .. Len(log) - CountToday : log[i].sent \div Day < Today
<1> USE RegistryAssumption
<1>1. popped \in Nat /\ popped <= Len(log) /\ Len(log) \in Nat
  BY DEF RegistryInv, RegistryTypes, QuotaInv, MinuteInv
<1>2. /\ PoppedNow \in popped .. Len(log)
      /\ \A i \in popped + 1 .. PoppedNow : Outdated(i)
  BY <1>1, PoppedNowPops DEF RegistryInv
<1>3. \A i \in 1 .. popped' : log[i].sent < clock - Minute
  BY <1>1, <1>2 DEF RegistryInv, QuotaInv, MinuteInv, Outdated
<1>4. Today \in Nat
  BY DivMonotone DEF RegistryInv, RegistryTypes, Today
<1>5. CountToday \in Nat /\ CountToday <= Len(log)
  BY DEF RegistryInv, RegistryTypes, QuotaInv, DayInv, CountToday
<1>6. \A i \in 1 .. Len(log) : log[i].sent \div Day \in Nat
  <2> TAKE i \in 1 .. Len(log)
  <2>1. log[i].sent \in Nat
    BY CallTypes DEF RegistryInv, RegistryTypes
  <2> QED
    BY <2>1, DivMonotone
<1>7. /\ \A i \in 1 .. Len(log) : log[i].sent \div Day <= Today
      /\ \A i \in 1 .. Len(log) - CountToday : log[i].sent \div Day < Today
  <2> DEFINE dayOf(i) == log[i].sent \div Day
  <2>1. /\ day \in Int /\ day <= Today
        /\ \A i \in 1 .. Len(log) : dayOf(i) \in Nat /\ dayOf(i) <= day
        /\ \A i \in 1 .. Len(log) - dayCount : dayOf(i) < day
        /\ dayCount \in Nat
    BY <1>6 DEF RegistryInv, RegistryTypes, QuotaInv, DayInv
  <2> HIDE DEF dayOf
  <2>2. /\ \A i \in 1 .. Len(log) : dayOf(i) <= Today
        /\ \A i \in 1 .. Len(log) - CountToday : dayOf(i) < Today
    BY <1>1, <1>4, <2>1 DEF CountToday
  <2> QED
    BY <2>2 DEF dayOf
<1> QED
  BY <1>1, <1>2, <1>3, <1>4, <1>5, <1>7

(* The last good payload, judged at a time at most one timeout ago. *)
LEMMA FallbackFresh ==
    ASSUME RegistryInv, NEW k \in Keys, NEW t \in Nat, clock <= t + Timeout,
           Fallback(k, t), UNCHANGED <<clock, newest>>
    PROVE  served' \in Served /\ ServedFresh'
<1> USE RegistryAssumption
<1>1. clock \in Nat /\ lastGood[k].at \in Nat /\ lastGood[k].expires \in Int
  BY DEF RegistryInv, RegistryTypes, Entry
<1>2. Fresh(lastGood[k], t) =>
         lastGood[k].at = newest[k] /\ clock - lastGood[k].at < LastGoodTTL + Timeout
  BY <1>1 DEF RegistryInv, StoresInv, StoreInv, Fresh, NoTime
<1>3. /\ served'.from \in {"last_good", "none"}
      /\ served'.from = "last_good" => Fresh(lastGood[k], t)
      /\ served'.key = k /\ served'.at = lastGood[k].at
  BY DEF Fallback
<1>4. served' \in Served
  BY <1>1 DEF Fallback, Served
<1> QED
  BY <1>2, <1>3, <1>4 DEF ServedFresh

(* A call that ends at once changes neither the log nor the stores. *)
LEMMA ImmediateStep ==
    ASSUME RegistryInv, NEW k \in Keys,
           ServeCached(k) \/ RefusedByBreaker(k) \/ RefusedByQuota(k)
    PROVE  RegistryInv'
<1> USE RegistryAssumption
<1>1. /\ ~ waiting /\ key' = k /\ started' = clock
      /\ UNCHANGED <<clock, waiting, consecutiveFailures, openedAt, cache, lastGood, log, newest>>
  BY DEF ServeCached, RefusedByBreaker, RefusedByQuota, CanCall, BreakerLetsPass, breaker,
     stores
<1>2. served' \in Served /\ ServedFresh'
  <2>1. CASE ServeCached(k)
    <3>1. clock \in Nat /\ cache[k].at \in Nat /\ cache[k].expires \in Int
      BY DEF RegistryInv, RegistryTypes, Entry
    <3>2. served' = [from |-> "cache", key |-> k, at |-> cache[k].at] /\ clock < cache[k].expires
      BY <2>1 DEF ServeCached, CacheHit, Fresh
    <3>3. cache[k].at = newest[k] /\ clock - cache[k].at < CacheTTL
      BY <3>1, <3>2 DEF RegistryInv, StoresInv, StoreInv, NoTime
    <3> QED
      BY <1>1, <3>1, <3>2, <3>3 DEF Served, ServedFresh
  <2>2. CASE Fallback(k, clock)
    BY <1>1, <2>2, FallbackFresh DEF RegistryInv, RegistryTypes
  <2> QED
    BY <2>1, <2>2 DEF RefusedByBreaker, RefusedByQuota
<1>3. /\ state' \in {"closed", "open", "half_open"}
      /\ state' # state => state = "open" /\ state' = "half_open" /\ CooledDown
  BY DEF ServeCached, RefusedByBreaker, RefusedByQuota, BreakerLetsPass, breaker,
     RegistryInv, RegistryTypes
<1>4. CallInv' /\ BreakerHolds'
  BY <1>1 DEF RegistryInv, CallInv, BreakerHolds
<1>5. BreakerInv'
  BY <1>1, <1>3 DEF RegistryInv, RegistryTypes, BreakerInv, Done, CooledDown
<1>6. QuotaInv' /\ popped' \in Nat /\ day' \in Int /\ dayCount' \in Nat
  <2>1. QuotaKept'
    BY <1>1 DEF RegistryInv, QuotaInv, QuotaKept
  <2>2. Today' = Today
    BY <1>1 DEF Today
  <2>3. CASE UNCHANGED quota
    BY <1>1, <2>1, <2>2, <2>3
       DEF quota, RegistryInv, RegistryTypes, QuotaInv, MinuteInv, DayInv
  <2>4. CASE RefusedByQuota(k)
    <3>1. popped' = PoppedNow /\ day' = Today /\ dayCount' = CountToday
      BY <2>4 DEF RefusedByQuota
    <3> QED
      BY <1>1, <2>1, <2>2, <3>1, ReservedQuota DEF QuotaInv, MinuteInv, DayInv
  <2> QED
    BY <2>3, <2>4 DEF ServeCached, RefusedByBreaker
<1>7. RegistryTypes'
  BY <1>1, <1>2, <1>3, <1>6 DEF RegistryInv, RegistryTypes
<1>8. StoresInv'
  BY <1>1 DEF RegistryInv, StoresInv, StoreInv
<1> QED
  BY <1>2, <1>4, <1>5, <1>6, <1>7, <1>8 DEF RegistryInv
(* A call leaves: the breaker has let it pass and the quota has room. *)
LEMMA SendStep ==
    ASSUME RegistryInv, NEW k \in Keys, Send(k)
    PROVE  RegistryInv'
<1> USE RegistryAssumption
<1>1. /\ ~ waiting /\ waiting' = TRUE /\ key' = k /\ started' = clock
      /\ served' = [from |-> "none", key |-> served.key, at |-> served.at]
      /\ popped' = PoppedNow /\ day' = Today /\ dayCount' = CountToday + 1
      /\ WithinQuota /\ BreakerLetsPass
      /\ UNCHANGED <<clock, cache, lastGood, newest, consecutiveFailures, openedAt>>
  BY DEF Send, CanCall, BreakerLetsPass, stores
<1>2. /\ log' \in Seq(Call) /\ Len(log') = Len(log) + 1
      /\ \A i \in 1 .. Len(log) : log'[i] = log[i]
      /\ log'[Len(log) + 1].sent = clock
  BY SentLog DEF RegistryInv
<1>3. log \in Seq(Call) /\ clock \in Nat /\ Len(log) \in Nat
  BY DEF RegistryInv, RegistryTypes
<1>4. /\ popped' \in Nat /\ popped' <= Len(log)
      /\ \A i \in 1 .. popped' : log[i].sent < clock - Minute
      /\ CountToday \in Nat /\ CountToday <= Len(log)
      /\ Today \in Nat
      /\ \A i \in 1 .. Len(log) : log[i].sent \div Day <= Today
      /\ \A i \in 1 .. Len(log) - CountToday : log[i].sent \div Day < Today
  BY <1>1, ReservedQuota
<1>5. /\ state' \in {"closed", "open", "half_open"} /\ state' # "open"
      /\ state' # state => state = "open" /\ state' = "half_open" /\ CooledDown
  BY <1>1 DEF BreakerLetsPass, RegistryInv, RegistryTypes
<1>6. RegistryTypes'
  <2>1. /\ clock' \in Nat /\ started' \in Nat /\ key' \in Keys /\ waiting' \in BOOLEAN
        /\ consecutiveFailures' \in Nat /\ openedAt' \in Int
    BY <1>1 DEF RegistryInv, RegistryTypes
  <2>2. popped' \in Nat /\ day' \in Int /\ dayCount' \in Nat
    <3>1. Today \in Int /\ CountToday + 1 \in Nat
      BY <1>4
    <3> QED
      BY <1>1, <1>4, <3>1
  <2>3. /\ cache' \in [Keys -> Entry] /\ lastGood' \in [Keys -> Entry]
        /\ newest' \in [Keys -> Int]
    BY <1>1 DEF RegistryInv, RegistryTypes
  <2>4. served' \in Served
    BY <1>1 DEF RegistryInv, RegistryTypes, Served
  <2> QED
    BY <1>2, <1>5, <2>1, <2>2, <2>3, <2>4 DEF RegistryTypes
<1>7. CallInv' /\ ServedFresh' /\ StoresInv'
  BY <1>1, <1>2, <1>3 DEF RegistryInv, CallInv, ServedFresh, StoresInv, StoreInv
<1>8. Done' = Done /\ Done = Len(log)
  BY <1>1, <1>2, <1>3 DEF Done
<1>9. BreakerInv'
  BY <1>1, <1>2, <1>3, <1>5, <1>8
     DEF RegistryInv, RegistryTypes, BreakerInv, CooledDown
<1>10. BreakerHolds'
  <2> SUFFICES ASSUME NEW i \in Threshold .. Len(log),
                      \A j \in i - Threshold + 1 .. i : ~ log'[j].ok
               PROVE  log'[i + 1].sent - log'[i].ended >= Cooldown
    BY <1>2, <1>3 DEF BreakerHolds
  <2>1. \A j \in i - Threshold + 1 .. i : ~ log[j].ok
    BY <1>2, <1>3
  <2>2. CASE i < Len(log)
    <3>1. i \in Threshold .. Len(log) - 1 /\ i \in 1 .. Len(log) /\ i + 1 \in 1 .. Len(log)
      BY <1>3, <2>2
    <3>2. log[i + 1].sent - log[i].ended >= Cooldown
      BY <2>1, <3>1 DEF RegistryInv, BreakerHolds
    <3> QED
      BY <1>2, <3>1, <3>2
  <2>3. CASE i = Len(log)
    <3>1. consecutiveFailures >= Threshold
      BY <1>3, <1>8, <2>1, <2>3 DEF RegistryInv, RegistryTypes, BreakerInv
    <3>2. openedAt = log[i].ended /\ clock - openedAt >= Cooldown
      BY <1>1, <1>5, <1>8, <2>3, <3>1 DEF RegistryInv, BreakerInv, CooledDown
    <3> QED
      BY <1>2, <1>3, <2>3, <3>2
  <2> QED
    BY <1>3, <2>2, <2>3
<1>11. Today' = Today
  BY <1>1 DEF Today
<1>12. MinuteInv' /\ DayInv'
  <2>1. MinuteInv'
    BY <1>1, <1>2, <1>3, <1>4 DEF MinuteInv
  <2>2. log'[Len(log) + 1].sent \div Day = Today
    BY <1>2 DEF Today
  <2>3. \A i \in 1 .. Len(log) : log'[i].sent \div Day = log[i].sent \div Day
    BY <1>2
  <2>4. dayCount' <= Len(log') /\ day' <= Today'
    BY <1>1, <1>2, <1>3, <1>4, <1>11
  <2>5. \A i \in 1 .. Len(log') : log'[i].sent \div Day <= day'
    <3> TAKE i \in 1 .. Len(log')
    <3>1. i \in 1 .. Len(log) \/ i = Len(log) + 1
      BY <1>2, <1>3
    <3> QED
      BY <1>1, <1>4, <2>2, <2>3, <3>1
  <2>6. \A i \in 1 .. Len(log') - dayCount' : log'[i].sent \div Day < day'
    <3> TAKE i \in 1 .. Len(log') - dayCount'
    <3>1. i \in 1 .. Len(log) - CountToday /\ i \in 1 .. Len(log)
      BY <1>1, <1>2, <1>3, <1>4
    <3> QED
      BY <1>1, <1>4, <2>3, <3>1
  <2> QED
    BY <2>1, <2>4, <2>5, <2>6 DEF DayInv
<1>13. QuotaKept'
  <2>1. ASSUME NEW i \in 1 .. Len(log') - PerMinute
        PROVE  log'[i + PerMinute].sent - log'[i].sent > Minute
    <3>1. CASE i + PerMinute <= Len(log)
      BY <1>2, <1>3, <3>1 DEF RegistryInv, QuotaInv, QuotaKept
    <3>2. CASE i + PerMinute = Len(log) + 1
      <4>1. i \in 1 .. popped'
        BY <1>1, <1>3, <1>4, <3>2 DEF WithinQuota
      <4>2. i \in 1 .. Len(log)
        BY <1>3, <1>4, <4>1
      <4>3. log[i].sent < clock - Minute /\ log'[i] = log[i]
        BY <1>2, <1>4, <4>1, <4>2
      <4>4. log[i].sent \in Nat
        BY <1>3, <4>2, CallTypes
      <4>5. log'[i + PerMinute].sent = clock
        BY <1>2, <3>2
      <4>6. PICK x \in Nat : x = log[i].sent
        BY <4>4
      <4> QED
        BY <1>3, <4>3, <4>5, <4>6
    <3> QED
      BY <1>2, <1>3, <3>1, <3>2
  <2>2. ASSUME NEW i \in 1 .. Len(log') - PerDay
        PROVE  log'[i + PerDay].sent \div Day # log'[i].sent \div Day
    <3>1. CASE i + PerDay <= Len(log)
      <4>1. i \in 1 .. Len(log) - PerDay /\ i \in 1 .. Len(log) /\ i + PerDay \in 1 .. Len(log)
        BY <1>3, <3>1
      <4> QED
        BY <1>2, <4>1 DEF RegistryInv, QuotaInv, QuotaKept
    <3>2. CASE i + PerDay = Len(log) + 1
      <4>1. i \in 1 .. Len(log) - CountToday /\ i \in 1 .. Len(log)
        BY <1>1, <1>3, <1>4, <3>2 DEF WithinQuota
      <4>2. log[i].sent \div Day < Today /\ log'[i].sent \div Day = log[i].sent \div Day
        BY <1>2, <1>4, <4>1
      <4>3. log'[i + PerDay].sent \div Day = Today
        BY <1>2, <3>2 DEF Today
      <4>4. log[i].sent \div Day \in Nat
        <5>1. log[i].sent \in Nat
          BY <1>3, <4>1, CallTypes
        <5> QED
          BY <5>1, DivMonotone
      <4> QED
        BY <1>4, <4>2, <4>3, <4>4
    <3> QED
      BY <1>2, <1>3, <3>1, <3>2
  <2> QED
    BY <2>1, <2>2 DEF QuotaKept
<1> QED
  BY <1>6, <1>7, <1>9, <1>10, <1>12, <1>13 DEF RegistryInv, QuotaInv
(* What holds of the log, and of the quotas, when the waiting call ends. *)
LEMMA EndedCall ==
    ASSUME RegistryInv, waiting, waiting' = FALSE, NEW ok \in BOOLEAN, Ended(ok),
           UNCHANGED <<clock, popped, day, dayCount>>
    PROVE  /\ log' \in Seq(Call) /\ Len(log) \in Nat \ {0}
           /\ Done' = Len(log) /\ Done = Len(log) - 1
           /\ \A i \in 1 .. Done : log'[i] = log[i]
           /\ log'[Done'].ended = clock /\ log'[Done'].ok = ok
           /\ BreakerHolds' /\ QuotaInv'
<1> USE RegistryAssumption
<1>1. /\ log \in Seq(Call) /\ Len(log) > 0 /\ Len(log) \in Nat
  BY DEF RegistryInv, RegistryTypes, CallInv
<1>2. /\ log' \in Seq(Call) /\ Len(log') = Len(log)
      /\ \A i \in 1 .. Len(log) - 1 : log'[i] = log[i]
      /\ \A i \in 1 .. Len(log) : log'[i].sent = log[i].sent
      /\ log'[Len(log)].ended = clock /\ log'[Len(log)].ok = ok
  BY <1>1, EndedLog DEF RegistryInv
<1>3. Done' = Len(log) /\ Done = Len(log) - 1
  BY <1>1, <1>2 DEF Done
<1>4. BreakerHolds'
  <2> SUFFICES ASSUME NEW i \in Threshold .. Len(log) - 1,
                      \A j \in i - Threshold + 1 .. i : ~ log'[j].ok
               PROVE  log'[i + 1].sent - log'[i].ended >= Cooldown
    BY <1>1, <1>2 DEF BreakerHolds
  <2>1. \A j \in i - Threshold + 1 .. i : ~ log[j].ok
    <3>1. \A j \in i - Threshold + 1 .. i : j \in 1 .. Len(log) - 1
      BY <1>1
    <3> QED
      BY <1>2, <3>1
  <2>2. log[i + 1].sent - log[i].ended >= Cooldown
    BY <2>1 DEF RegistryInv, BreakerHolds
  <2>3. i \in 1 .. Len(log) - 1 /\ i + 1 \in 1 .. Len(log)
    BY <1>1
  <2> QED
    BY <1>2, <2>2, <2>3
<1>5. QuotaInv'
  <2>1. MinuteInv'
    <3>1. \A i \in 1 .. popped : i \in 1 .. Len(log)
      BY <1>1 DEF RegistryInv, RegistryTypes, QuotaInv, MinuteInv
    <3> QED
      BY <1>2, <3>1 DEF RegistryInv, QuotaInv, MinuteInv
  <2>2. \A i \in 1 .. Len(log) : log'[i].sent \div Day = log[i].sent \div Day
    BY <1>2
  <2>3. Today' = Today
    BY DEF Today
  <2>4. \A i \in 1 .. Len(log) - dayCount : i \in 1 .. Len(log)
    BY <1>1 DEF RegistryInv, RegistryTypes
  <2>5. DayInv'
    BY <1>2, <2>2, <2>3, <2>4 DEF RegistryInv, QuotaInv, DayInv
  <2>6. /\ \A i \in 1 .. Len(log) - PerMinute :
               i \in 1 .. Len(log) /\ i + PerMinute \in 1 .. Len(log)
        /\ \A i \in 1 .. Len(log) - PerDay : i \in 1 .. Len(log) /\ i + PerDay \in 1 .. Len(log)
    BY <1>1
  <2>7. QuotaKept'
    BY <1>2, <2>2, <2>6 DEF RegistryInv, QuotaInv, QuotaKept
  <2> QED
    BY <2>1, <2>5, <2>7 DEF QuotaInv
<1> QED
  BY <1>1, <1>2, <1>3, <1>4, <1>5

(* The provider raises or the timeout fires. *)
LEMMA FailsStep == RegistryInv /\ Fails => RegistryInv'
<1> SUFFICES ASSUME RegistryInv, Fails PROVE RegistryInv'
  OBVIOUS
<1> USE RegistryAssumption
<1>1. /\ waiting /\ waiting' = FALSE /\ Ended(FALSE) /\ Fallback(key, started)
      /\ consecutiveFailures' = consecutiveFailures + 1
      /\ state' = IF Opens THEN "open" ELSE state
      /\ openedAt' = IF Opens THEN clock ELSE openedAt
      /\ UNCHANGED <<clock, key, started, popped, day, dayCount, cache, lastGood, newest>>
  BY DEF Fails, quota, stores
<1>2. /\ log' \in Seq(Call) /\ Len(log) \in Nat \ {0}
      /\ Done' = Len(log) /\ Done = Len(log) - 1
      /\ \A i \in 1 .. Done : log'[i] = log[i]
      /\ log'[Done'].ended = clock /\ log'[Done'].ok = FALSE
      /\ BreakerHolds' /\ QuotaInv'
  BY <1>1, EndedCall
<1>3. served' \in Served /\ ServedFresh'
  BY <1>1, FallbackFresh DEF RegistryInv, RegistryTypes, CallInv
<1>4. RegistryTypes'
  <2>1. /\ state' \in {"closed", "open", "half_open"}
        /\ consecutiveFailures' \in Nat /\ openedAt' \in Int
    BY <1>1 DEF RegistryInv, RegistryTypes
  <2>2. waiting' \in BOOLEAN
    BY <1>1
  <2> QED
    BY <1>1, <1>2, <1>3, <2>1, <2>2 DEF RegistryInv, RegistryTypes
<1>5. CallInv' /\ StoresInv'
  BY <1>1 DEF RegistryInv, CallInv, StoresInv, StoreInv
<1>6. BreakerInv'
  <2>1. consecutiveFailures \in Nat /\ clock \in Nat /\ consecutiveFailures <= Done
    BY DEF RegistryInv, RegistryTypes, BreakerInv
  <2>2. consecutiveFailures' <= Done' /\ Done' - consecutiveFailures' = Done - consecutiveFailures
    BY <1>1, <1>2, <2>1
  <2>3. consecutiveFailures' < Done' => log'[Done' - consecutiveFailures'].ok
    <3> HAVE consecutiveFailures' < Done'
    <3>1. consecutiveFailures < Done /\ Done - consecutiveFailures \in 1 .. Done
      BY <1>1, <1>2, <2>1
    <3> QED
      BY <1>2, <2>2, <3>1 DEF RegistryInv, BreakerInv
  <2>4. consecutiveFailures' >= Threshold => state' = "open" /\ openedAt' = clock
    BY <1>1, <2>1 DEF Opens
  <2> QED
    BY <1>1, <1>2, <2>1, <2>2, <2>3, <2>4 DEF BreakerInv
<1> QED
  BY <1>2, <1>3, <1>4, <1>5, <1>6 DEF RegistryInv

(* What a payload put into a store leaves there. *)
LEMMA StoredLatest ==
    ASSUME RegistryInv, waiting, NEW ttl \in Nat, NEW store \in [Keys -> Entry],
           StoreInv(store, ttl),
           newest' = [newest EXCEPT ![key] = clock]
    PROVE  /\ Store(store, ttl) \in [Keys -> Entry]
           /\ \A k \in Keys : Store(store, ttl)[k].expires # NoTime =>
                 /\ ttl > 0
                 /\ Store(store, ttl)[k].at = newest'[k]
                 /\ Store(store, ttl)[k].expires <= Store(store, ttl)[k].at + ttl
<1> DEFINE entry == [at |-> clock, expires |-> started + ttl]
<1>1. clock \in Nat /\ started \in Nat /\ started <= clock /\ key \in Keys
      /\ newest \in [Keys -> Int]
  BY DEF RegistryInv, RegistryTypes, CallInv
<1>2. entry \in Entry /\ entry.at = clock /\ entry.expires = started + ttl
  BY <1>1 DEF Entry
<1>3. Store(store, ttl) = IF ttl > 0 THEN [store EXCEPT ![key] = entry] ELSE store
  BY DEF Store
<1> HIDE DEF entry
<1>4. CASE ttl = 0
  BY <1>3, <1>4 DEF StoreInv
<1>5. CASE ttl > 0
  <2>1. Store(store, ttl) = [store EXCEPT ![key] = entry]
    BY <1>3, <1>5
  <2>2. Store(store, ttl) \in [Keys -> Entry]
    BY <1>2, <2>1
  <2>3. ASSUME NEW k \in Keys, Store(store, ttl)[k].expires # NoTime
        PROVE  /\ Store(store, ttl)[k].at = newest'[k]
               /\ Store(store, ttl)[k].expires <= Store(store, ttl)[k].at + ttl
    <3>1. CASE k = key
      BY <1>1, <1>2, <2>1, <3>1
    <3>2. CASE k # key
      <4>1. Store(store, ttl)[k] = store[k] /\ newest'[k] = newest[k]
        BY <1>1, <2>1, <3>2
      <4> QED
        BY <2>3, <4>1 DEF StoreInv
    <3> QED
      BY <3>1, <3>2
  <2> QED
    BY <1>5, <2>2, <2>3
<1> QED
  BY <1>4, <1>5

(* The provider answers: the payload is stored and served. *)
LEMMA AnswersStep == RegistryInv /\ Answers => RegistryInv'
<1> SUFFICES ASSUME RegistryInv, Answers PROVE RegistryInv'
  OBVIOUS
<1> USE RegistryAssumption
<1>1. /\ waiting /\ waiting' = FALSE /\ Ended(TRUE)
      /\ consecutiveFailures' = 0 /\ state' = "closed" /\ openedAt' = NoTime
      /\ cache' = Store(cache, CacheTTL) /\ lastGood' = Store(lastGood, LastGoodTTL)
      /\ newest' = [newest EXCEPT ![key] = clock]
      /\ served' = [from |-> "provider", key |-> key, at |-> clock]
      /\ UNCHANGED <<clock, key, started, popped, day, dayCount>>
  BY DEF Answers, quota
<1>2. /\ log' \in Seq(Call) /\ Len(log) \in Nat \ {0}
      /\ Done' = Len(log) /\ log'[Done'].ok = TRUE
      /\ BreakerHolds' /\ QuotaInv'
  BY <1>1, EndedCall
<1>3. /\ cache' \in [Keys -> Entry] /\ lastGood' \in [Keys -> Entry]
      /\ StoresInv'
  <2>1. /\ cache \in [Keys -> Entry] /\ lastGood \in [Keys -> Entry]
        /\ StoreInv(cache, CacheTTL) /\ StoreInv(lastGood, LastGoodTTL)
    BY DEF RegistryInv, RegistryTypes, StoresInv
  <2>2. cache' \in [Keys -> Entry] /\ StoreInv(cache, CacheTTL)'
    BY <1>1, <2>1, StoredLatest DEF StoreInv
  <2>3. lastGood' \in [Keys -> Entry] /\ StoreInv(lastGood, LastGoodTTL)'
    BY <1>1, <2>1, StoredLatest DEF StoreInv
  <2> QED
    BY <2>2, <2>3 DEF StoresInv
<1>4. clock \in Nat /\ key \in Keys /\ newest \in [Keys -> Int]
  BY DEF RegistryInv, RegistryTypes
<1>5. served' \in Served /\ ServedFresh' /\ newest' \in [Keys -> Int]
  BY <1>1, <1>4 DEF Served, ServedFresh
<1>6. RegistryTypes'
  <2>1. /\ state' \in {"closed", "open", "half_open"}
        /\ consecutiveFailures' \in Nat /\ openedAt' \in Int
    BY <1>1 DEF NoTime
  <2>2. waiting' \in BOOLEAN
    BY <1>1
  <2> QED
    BY <1>1, <1>2, <1>3, <1>5, <2>1, <2>2 DEF RegistryInv, RegistryTypes
<1>7. CallInv' /\ BreakerInv'
  BY <1>1, <1>2 DEF CallInv, BreakerInv
<1> QED
  BY <1>2, <1>3, <1>5, <1>6, <1>7 DEF RegistryInv

-----------------------------------------------------------------------------
(* Every step of the registry keeps the invariant (market/registry.py). *)
THEOREM RegistryInvariance == RegistrySpec => []RegistryInv
<1>1. RegistryInv /\ [RegistryNext]_registryVars => RegistryInv'
  <2> SUFFICES ASSUME RegistryInv, [RegistryNext]_registryVars PROVE RegistryInv'
    OBVIOUS
  <2>1. CASE Tick
    BY <2>1, TickStep
  <2>2. ASSUME NEW k \in Keys,
               ServeCached(k) \/ RefusedByBreaker(k) \/ RefusedByQuota(k) \/ Send(k)
        PROVE  RegistryInv'
    BY <2>2, ImmediateStep, SendStep
  <2>3. CASE Fails \/ Answers
    BY <2>3, FailsStep, AnswersStep
  <2>4. CASE UNCHANGED registryVars
    BY <2>4 DEF registryVars, RegistryInv, RegistryTypes, CallInv, BreakerInv, Done,
       BreakerHolds, QuotaInv, MinuteInv, DayInv, QuotaKept, Today, StoresInv, StoreInv,
       ServedFresh
  <2> QED
    BY <2>1, <2>2, <2>3, <2>4 DEF RegistryNext, TimeIsUp
<1> QED
  BY <1>1, RegistryInitially, PTL DEF RegistrySpec

(* In no window of the length of the short quota more than PerMinute calls *)
(* leave for the provider, and on no UTC day more than PerDay              *)
(* (_reserve_quota).                                                       *)
THEOREM QuotasAreKept == RegistrySpec => []QuotaKept
<1>1. RegistryInv => QuotaKept
  BY DEF RegistryInv, QuotaInv
<1> QED
  BY <1>1, RegistryInvariance, PTL

(* Threshold failures in a row hold the next call back for the cool-down   *)
(* (_check_breaker, _record_failure).                                      *)
THEOREM BreakerAlwaysHolds == RegistrySpec => []BreakerHolds
<1>1. RegistryInv => BreakerHolds
  BY DEF RegistryInv
<1> QED
  BY <1>1, RegistryInvariance, PTL

(* A call returns the newest payload of its key, no older than the window  *)
(* it came from allows (_cache_get, _last_good_get).                       *)
THEOREM NothingStaleServed == RegistrySpec => []ServedFresh
<1>1. RegistryInv => ServedFresh
  BY DEF RegistryInv
<1> QED
  BY <1>1, RegistryInvariance, PTL
=============================================================================
