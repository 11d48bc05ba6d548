-------------------------- MODULE ProviderRegistry --------------------------
(***************************************************************************)
(* ProviderRegistry (market/registry.py): the timeout, circuit breaker,    *)
(* quotas, cache and last-good window around every call of a market data   *)
(* or intelligence provider.                                               *)
(*                                                                         *)
(* One registry serves one provider and its calls come one after another:  *)
(* the symbols of a cycle are sequential, and the providers that are       *)
(* gathered together have a registry each.  Time is a counter; a call      *)
(* reads it when it starts, and judges the cache and the last-good window  *)
(* by that reading even after the wait.  A payload is represented by the   *)
(* time it was fetched.                                                    *)
(***************************************************************************)
EXTENDS Integers, Sequences, FiniteSets

CONSTANTS
    Keys,          \* cache keys: the assets asked of the provider
    Timeout,       \* timeout_seconds
    Threshold,     \* failure_threshold
    Cooldown,      \* cooldown_seconds
    Minute,        \* the length of the short quota window
    Day,           \* the length of a UTC day
    PerMinute,     \* calls_per_minute
    PerDay,        \* calls_per_day
    CacheTTL,      \* cache_ttl_seconds; 0 disables the cache
    LastGoodTTL,   \* last_good_ttl_seconds; 0 disables the window
    MaxTime        \* bound on the clock

ASSUME RegistryAssumption ==
    /\ Timeout \in Nat /\ Cooldown \in Nat /\ Minute \in Nat /\ Day \in Nat \ {0}
    /\ Threshold \in Nat \ {0} /\ PerMinute \in Nat \ {0} /\ PerDay \in Nat \ {0}
    /\ CacheTTL \in Nat /\ LastGoodTTL \in Nat
    /\ MaxTime \in Nat

VARIABLES
    clock,               \* the clock
    waiting,             \* a call awaits the provider
    key,                 \* the cache key of the call
    started,             \* the clock when the call started
    state,               \* _state
    consecutiveFailures, \* _consecutive_failures
    openedAt,            \* _opened_at
    popped,              \* _minute_calls is log without its first popped entries
    day,                 \* _day
    dayCount,            \* _day_count
    cache,               \* _cache
    lastGood,            \* _last_good
    \* history
    log,                 \* every call that left for the provider
    newest,              \* per key, when the provider last answered
    served               \* what the last call returned

breaker == <<state, consecutiveFailures, openedAt>>
quota == <<popped, day, dayCount>>
stores == <<cache, lastGood>>
registryVars ==
    <<clock, waiting, key, started, state, consecutiveFailures, openedAt,
      popped, day, dayCount, cache, lastGood, log, newest, served>>

NoTime == -1

(* No _CacheEntry. *)
Miss == [at |-> 0, expires |-> NoTime]

RegistryInit ==
    /\ clock = 0 /\ waiting = FALSE /\ started = 0
    /\ key \in Keys
    /\ state = "closed" /\ consecutiveFailures = 0 /\ openedAt = NoTime
    /\ popped = 0 /\ day = NoTime /\ dayCount = 0
    /\ cache = [k \in Keys |-> Miss] /\ lastGood = [k \in Keys |-> Miss]
    /\ log = << >> /\ newest = [k \in Keys |-> NoTime]
    /\ served = [from |-> "none", key |-> key, at |-> 0]

-----------------------------------------------------------------------------
(* wait_for fires at the deadline; no call starts that could outrun the    *)
(* bound on the clock.                                                     *)
Tick ==
    /\ clock < MaxTime
    /\ waiting => clock < started + Timeout
    /\ clock' = clock + 1
    /\ served' = [from |-> "none", key |-> served.key, at |-> served.at]
    /\ UNCHANGED <<waiting, key, started, breaker, quota, stores, log, newest>>

CanCall(k) ==
    /\ ~ waiting
    /\ clock + Timeout <= MaxTime
    /\ key' = k
    /\ started' = clock

(* _cache_get and _last_good_get.  An entry found expired is deleted: it   *)
(* would be found expired again.                                           *)
Fresh(entry, t) == t < entry.expires

(* The end of a call that has no result of its own: the last good payload, *)
(* judged at the start of the call, or the error.                          *)
Fallback(k, t) ==
    served' = [from |-> IF LastGoodTTL > 0 /\ Fresh(lastGood[k], t)
                        THEN "last_good" ELSE "none",
               key |-> k,
               at |-> lastGood[k].at]

(* call: a hit returns before the breaker and the quota are asked. *)
CacheHit(k) == CacheTTL > 0 /\ Fresh(cache[k], clock)

ServeCached(k) ==
    /\ CanCall(k)
    /\ CacheHit(k)
    /\ served' = [from |-> "cache", key |-> k, at |-> cache[k].at]
    /\ UNCHANGED <<clock, waiting, breaker, quota, stores, log, newest>>

(* Mutant: the cool-down is over one tick early. *)
CooledDownEarly == openedAt # NoTime /\ clock - openedAt + 1 >= Cooldown

(* _check_breaker *)
CooledDown == openedAt # NoTime /\ clock - openedAt >= Cooldown

RefusedByBreaker(k) ==
    /\ CanCall(k)
    /\ ~ CacheHit(k)
    /\ state = "open" /\ ~ CooledDown
    /\ Fallback(k, clock)
    /\ UNCHANGED <<clock, waiting, breaker, quota, stores, log, newest>>

BreakerLetsPass ==
    /\ state = "open" => CooledDown
    /\ state' = IF state = "open" THEN "half_open" ELSE state
    /\ UNCHANGED <<consecutiveFailures, openedAt>>

-----------------------------------------------------------------------------
(* Mutant: a call exactly as old as the window leaves it. *)
OutdatedInclusive(i) == log[i].sent <= clock - Minute

(* _reserve_quota: calls older than the window leave it. *)
Outdated(i) == log[i].sent < clock - Minute

PoppedNow ==
    CHOOSE p \in popped .. Len(log) :
        /\ \A i \in popped + 1 .. p : Outdated(i)
        /\ p < Len(log) => ~ Outdated(p + 1)

Today == clock \div Day

CountToday == IF day = Today THEN dayCount ELSE 0

WithinQuota == Len(log) - PoppedNow < PerMinute /\ CountToday < PerDay

(* The breaker may have gone half-open by now; it stays so. *)
RefusedByQuota(k) ==
    /\ CanCall(k)
    /\ ~ CacheHit(k)
    /\ BreakerLetsPass
    /\ ~ WithinQuota
    /\ popped' = PoppedNow /\ day' = Today /\ dayCount' = CountToday
    /\ Fallback(k, clock)
    /\ UNCHANGED <<clock, waiting, stores, log, newest>>

Send(k) ==
    /\ CanCall(k)
    /\ ~ CacheHit(k)
    /\ BreakerLetsPass
    /\ WithinQuota
    /\ popped' = PoppedNow /\ day' = Today /\ dayCount' = CountToday + 1
    /\ log' = Append(log, [sent |-> clock, ended |-> NoTime, ok |-> FALSE])
    /\ waiting' = TRUE
    /\ served' = [from |-> "none", key |-> served.key, at |-> served.at]
    /\ UNCHANGED <<clock, stores, newest>>

Ended(ok) == log' = [log EXCEPT ![Len(log)] = [sent |-> @.sent, ended |-> clock, ok |-> ok]]

-----------------------------------------------------------------------------
(* _record_failure, then the last good payload: the provider raises, or    *)
(* the timeout fires.                                                      *)
Opens == state = "half_open" \/ consecutiveFailures + 1 >= Threshold

Fails ==
    /\ waiting
    /\ waiting' = FALSE
    /\ consecutiveFailures' = consecutiveFailures + 1
    /\ state' = IF Opens THEN "open" ELSE state
    /\ openedAt' = IF Opens THEN clock ELSE openedAt
    /\ Ended(FALSE)
    /\ Fallback(key, started)
    /\ UNCHANGED <<clock, key, started, quota, stores, newest>>

(* Mutant: a payload is stored where there is none for its key. *)
StoreOnce(old, ttl) ==
    IF ttl > 0 /\ old[key] = Miss
    THEN [old EXCEPT ![key] = [at |-> clock, expires |-> started + ttl]]
    ELSE old

(* _record_success, _cache_put, _last_good_put: the windows run from the   *)
(* start of the call.                                                      *)
Store(old, ttl) ==
    IF ttl > 0 THEN [old EXCEPT ![key] = [at |-> clock, expires |-> started + ttl]] ELSE old

Answers ==
    /\ waiting
    /\ waiting' = FALSE
    /\ consecutiveFailures' = 0 /\ state' = "closed" /\ openedAt' = NoTime
    /\ Ended(TRUE)
    /\ cache' = Store(cache, CacheTTL)
    /\ lastGood' = Store(lastGood, LastGoodTTL)
    /\ newest' = [newest EXCEPT ![key] = clock]
    /\ served' = [from |-> "provider", key |-> key, at |-> clock]
    /\ UNCHANGED <<clock, key, started, quota>>

(* The bound on the clock is reached. *)
TimeIsUp == clock + Timeout > MaxTime /\ ~ waiting /\ UNCHANGED registryVars

RegistryNext ==
    \/ Tick
    \/ \E k \in Keys : ServeCached(k) \/ RefusedByBreaker(k) \/ RefusedByQuota(k) \/ Send(k)
    \/ Fails
    \/ Answers
    \/ TimeIsUp

RegistrySpec == RegistryInit /\ [][RegistryNext]_registryVars

-----------------------------------------------------------------------------
(***************************************************************************)
(* Properties.                                                             *)
(***************************************************************************)

(* In no window of the length of the short quota, wherever it lies, more   *)
(* than PerMinute calls leave for the provider, and on no UTC day more     *)
(* than PerDay, whatever the failures and refusals between them            *)
(* (_reserve_quota).                                                       *)
QuotaKept ==
    /\ \A i \in 1 .. Len(log) - PerMinute : log[i + PerMinute].sent - log[i].sent > Minute
    /\ \A i \in 1 .. Len(log) - PerDay :
          log[i + PerDay].sent \div Day # log[i].sent \div Day

(* After Threshold failures in a row no call leaves before Cooldown has    *)
(* passed since the last of them ended, and one more failure is enough to  *)
(* hold the next call back for as long (_check_breaker, _record_failure).  *)
BreakerHolds ==
    \A i \in Threshold .. Len(log) - 1 :
        (\A j \in i - Threshold + 1 .. i : ~ log[j].ok)
        => log[i + 1].sent - log[i].ended >= Cooldown

(* What a call returns is the newest payload the provider gave for its     *)
(* key, and no older than the window it was served from allows: the cache  *)
(* less than its time to live, the last good one less than its window and  *)
(* one timeout (_cache_get, _last_good_get).                               *)
ServedFresh ==
    served.from # "none" =>
        /\ served.at = newest[served.key]
        /\ served.from = "cache" => clock - served.at < CacheTTL
        /\ served.from = "last_good" => clock - served.at < LastGoodTTL + Timeout
=============================================================================
