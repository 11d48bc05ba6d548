--------------------------- MODULE StrategyBreaker --------------------------
(***************************************************************************)
(* The circuit breaker of one strategy (circuit_breaker.py), asked by the  *)
(* risk engine before an entry and kept in the portfolio checkpoint        *)
(* (checkpoint.py) so that a trip outlives the process.  The strategies of *)
(* a breaker share nothing.                                                *)
(*                                                                         *)
(* Abstractions.  An outcome is the net result of a closed trade in whole  *)
(* hundredths of the NAV; the three ways it is computed (a reducing fill,  *)
(* a filled order of the ledger, the movement of the book's realized PnL)  *)
(* differ only in the time they report, which for an order is its last     *)
(* update.  Orders that realize nothing and zero movements are no step.    *)
(***************************************************************************)
EXTENDS Integers, Sequences

CONSTANTS
    Outcomes,     \* net results of closed trades
    MaxLosses,    \* strategy_max_consecutive_losses
    Window,       \* strategy_drawdown_window
    Limit,        \* strategy_max_rolling_drawdown_pct
    Cooldown,     \* strategy_breaker_cooldown_seconds
    Lag,          \* how late a fill of the ledger may be reported
    MaxOutcomes,  \* bound on the outcomes between two resets
    MaxClock      \* bound on the clock

ASSUME BreakerAssumption ==
    /\ Outcomes \subseteq Int
    /\ MaxLosses \in Nat \ {0} /\ Window \in Nat \ {0} /\ Limit \in Nat \ {0}
    /\ Cooldown \in Nat \ {0} /\ Lag \in Nat
    /\ MaxOutcomes \in Nat /\ MaxClock \in Nat

VARIABLES
    trades,      \* closed_trades, the last Window of them
    losses,      \* consecutive_losses
    trippedAt,   \* tripped_at
    stored,      \* the breaker state in the checkpoint
    clock,
    running,     \* the process is up
    \* history
    since,       \* every outcome since the last reset
    heldUntil    \* the end of the last suspension that was checkpointed

breakerVars == <<trades, losses, trippedAt, stored, clock, running, since, heldUntil>>

Untripped == -1

Fresh == [trades |-> <<>>, losses |-> 0, trippedAt |-> Untripped, since |-> <<>>]

BreakerInit ==
    /\ trades = <<>> /\ losses = 0 /\ trippedAt = Untripped
    /\ stored = Fresh
    /\ clock = 0 /\ running = TRUE
    /\ since = <<>> /\ heldUntil = 0

-----------------------------------------------------------------------------
Larger(m, n) == IF m >= n THEN m ELSE n

(* rolling_drawdown: one pass over the curve, which starts at 0. *)
RollingDrawdown(s) ==
    LET curve[i \in 0 .. Len(s)] == IF i = 0 THEN 0 ELSE curve[i - 1] + s[i]
        peak[i \in 0 .. Len(s)]  == IF i = 0 THEN 0 ELSE Larger(peak[i - 1], curve[i])
        worst[i \in 0 .. Len(s)] ==
            IF i = 0 THEN 0 ELSE Larger(worst[i - 1], peak[i] - curve[i])
    IN  worst[Len(s)]

(* Mutant: the trades of the window are those before the new one. *)
TrimmedLate(s, n) == IF Len(s) > n THEN SubSeq(s, 1, n) ELSE s

(* Mutant: the window holds one trade more. *)
TrimmedWide(s, n) == IF Len(s) > n + 1 THEN SubSeq(s, Len(s) - n, Len(s)) ELSE s

Trimmed(s, n) == IF Len(s) > n THEN SubSeq(s, Len(s) - n + 1, Len(s)) ELSE s

NextLosses(n, pnl) == IF pnl < 0 THEN n + 1 ELSE 0

Breached(s, n) == n >= MaxLosses \/ RollingDrawdown(s) >= Limit

NextTrippedAt(s, n, at) ==
    IF trippedAt # Untripped THEN trippedAt
    ELSE IF Breached(s, n) THEN at ELSE Untripped

RecordClosedTrade(pnl, at) ==
    LET s == Trimmed(Append(trades, pnl), Window)
        n == NextLosses(losses, pnl)
    IN  /\ running
        /\ Len(since) < MaxOutcomes
        /\ trades' = s /\ losses' = n
        /\ trippedAt' = NextTrippedAt(s, n, at)
        /\ since' = Append(since, pnl)
        /\ UNCHANGED <<stored, clock, running, heldUntil>>

(* record_reducing_fill and the feeder: a result of this moment. *)
RecordReducingFill == \E pnl \in Outcomes : RecordClosedTrade(pnl, clock)

(* record_ledger_close: a result of the time the order was last updated. *)
RecordLedgerClose ==
    \E pnl \in Outcomes, at \in 0 .. clock : clock - at <= Lag /\ RecordClosedTrade(pnl, at)

(* Mutant: the suspension ends one tick early. *)
CooledDownEarly == clock - trippedAt + 1 >= Cooldown

CooledDown == clock - trippedAt >= Cooldown

(* is_tripped, asked after the cool-down: reset.  Asked at any other time  *)
(* it changes nothing.                                                     *)
Reset ==
    /\ running
    /\ trippedAt # Untripped /\ CooledDown
    /\ trades' = <<>> /\ losses' = 0 /\ trippedAt' = Untripped
    /\ since' = <<>>
    /\ UNCHANGED <<stored, clock, running, heldUntil>>

(* export, into the checkpoint at the end of a cycle. *)
Export ==
    /\ running
    /\ stored' = [trades |-> trades, losses |-> losses, trippedAt |-> trippedAt, since |-> since]
    /\ heldUntil' = IF trippedAt # Untripped THEN trippedAt + Cooldown ELSE heldUntil
    /\ UNCHANGED <<trades, losses, trippedAt, clock, running, since>>

Crash ==
    /\ running
    /\ running' = FALSE
    /\ UNCHANGED <<trades, losses, trippedAt, stored, clock, since, heldUntil>>

(* load, when the process starts. *)
Load ==
    /\ ~ running
    /\ running' = TRUE
    /\ trades' = stored.trades /\ losses' = stored.losses
    /\ trippedAt' = stored.trippedAt /\ since' = stored.since
    /\ UNCHANGED <<stored, clock, heldUntil>>

Tick ==
    /\ clock < MaxClock
    /\ clock' = clock + 1
    /\ UNCHANGED <<trades, losses, trippedAt, stored, running, since, heldUntil>>

BreakerNext ==
    RecordReducingFill \/ RecordLedgerClose \/ Reset \/ Export \/ Crash \/ Load \/ Tick

BreakerSpec == BreakerInit /\ [][BreakerNext]_breakerVars

-----------------------------------------------------------------------------
(* In memory and in the checkpoint the window of trades stays within its   *)
(* length and no trip lies in the future.                                  *)
BreakerTypeOK ==
    /\ trades \in Seq(Int) /\ Len(trades) <= Window
    /\ losses \in Nat /\ trippedAt \in Int /\ trippedAt >= Untripped
    /\ stored.trades \in Seq(Int) /\ Len(stored.trades) <= Window
    /\ stored.losses \in Nat
    /\ stored.trippedAt \in Int /\ stored.trippedAt >= Untripped
    /\ clock \in Nat /\ running \in BOOLEAN /\ heldUntil \in Nat
    /\ trippedAt <= clock /\ stored.trippedAt <= clock

(* The reference: the outcomes of s up to n breach the policy when the     *)
(* last MaxLosses of them are losses, or when some stretch of the last     *)
(* Window of them loses Limit in all.                                      *)
Total(s, i, j) ==
    LET sum[k \in i - 1 .. j] == IF k < i THEN 0 ELSE sum[k - 1] + s[k] IN sum[j]

BreachesAt(s, n) ==
    \/ n >= MaxLosses /\ \A i \in n - MaxLosses + 1 .. n : s[i] < 0
    \/ \E i \in Larger(1, n - Window + 1) .. n : \E j \in i .. n : Total(s, i, j) <= - Limit

(* The strategy is suspended exactly when its outcomes since the last      *)
(* reset have breached the policy at some point: the trimmed window, the   *)
(* running loss count and the checkpoint they come back from lose nothing, *)
(* outcomes of trades that were open at the trip neither lift it nor are   *)
(* held against the strategy after the cool-down (record_closed_trade,     *)
(* is_tripped, reset, load).  Outcomes, and trips, reported after the last *)
(* export are lost by a crash; the reference is restored with the          *)
(* checkpoint and does not contain them either.                            *)
TrippedOnPolicy == (trippedAt # Untripped) <=> \E n \in 1 .. Len(since) : BreachesAt(since, n)

(* A suspension that reached the checkpoint holds until its cool-down has  *)
(* passed, whatever the strategy earns and however often the process is    *)
(* restarted (is_tripped, export, load).                                   *)
SuspensionHolds == (running /\ clock < heldUntil) => trippedAt # Untripped
=============================================================================
