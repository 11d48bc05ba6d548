------------------------------ MODULE PaperPerp -----------------------------
(***************************************************************************)
(* The paper perpetual of one asset: PaperPerpBook                         *)
(* (execution/paper_perp.py), the venue feed with its cached mid           *)
(* (execution/paper_perp_feed.py) and the three calls a cycle of the       *)
(* service makes (service.py): hedge a spot paper fill, apply the funding  *)
(* settlements, open the carry hedge.  The book lives in memory only; the  *)
(* execution ledger its hedges are recorded in is saved before the next    *)
(* hedge and by the reconciliation passes.  No operation closes a hedge.   *)
(*                                                                         *)
(* Abstractions.  Prices, sizes and rates are left out: a fee and a credit *)
(* are counted.  A fetch takes no time; what may happen while it is        *)
(* awaited happens before it.  A feed that fails or has no mid, and a tape *)
(* that is empty or whose last rate is zero, are the same choice.          *)
(***************************************************************************)
EXTENDS Integers, FiniteSets

CONSTANTS
    Venues,        \* the venues of the preference
    Fills,         \* decisions of spot paper fills
    None,
    CacheAge,      \* mid_cache_seconds
    Lookback,      \* how far back the tape of a venue reaches
    MaxClock,      \* bound on the clock
    MaxCycle,      \* bound on the cycles of a process
    MaxRestarts,   \* bound on the restarts
    MaxPrints,     \* bound on the settlements of a venue
    MaxFlips       \* bound on the changes of the kill switch

Times == 0 .. MaxClock

(* decision_id of a hedge: of a spot fill, or of the carry diagnostic. *)
HedgeIds == ({"spot"} \X Fills) \cup ({"carry"} \X (0 .. MaxCycle))

Hedges == [id : HedgeIds, venue : Venues, at : Times]

ASSUME PerpAssumption ==
    /\ {CacheAge, Lookback, MaxClock, MaxCycle, MaxRestarts, MaxPrints, MaxFlips} \subseteq Nat
    /\ None \notin Hedges

VARIABLES
    stage,     \* where the cycle stands
    cycle,     \* _cycle: cycles since the process began
    fill,      \* the spot fill being hedged
    position,  \* _positions[asset] with the quote it was opened at
    since,     \* _paper_perp_last_funding_at[asset]
    seen,      \* _seen_ids
    fees,      \* fees charged to the book
    cache,     \* _mid_cache of the feed
    ledger,    \* ids whose order is FILLED in the ledger
    file,      \* the same, in the ledger file
    filled,    \* spot decisions already filled
    engaged,   \* the kill switch
    clock,
    prints,    \* settlements each venue has published
    restarts, flips,
    \* history
    credited,  \* how often each settlement has been credited to the position
    missed,    \* settlements that had left the tape before they were applied
    inherited  \* ids the ledger file held when the process began

bookVars == <<position, since, seen, fees>>
envVars  == <<clock, prints, engaged, flips>>
perpVars == <<stage, cycle, fill, bookVars, cache, ledger, file, filled, envVars,
              restarts, credited, missed, inherited>>

NoCredit == [v \in Venues |-> [t \in Times |-> 0]]

PerpInit ==
    /\ stage = "idle" /\ cycle = 0 /\ fill = None
    /\ position = None /\ since = 0 /\ seen = {} /\ fees = 0
    /\ cache = None /\ ledger = {} /\ file = {} /\ filled = {}
    /\ engaged = FALSE /\ clock = 0 /\ prints = [v \in Venues |-> {}]
    /\ restarts = 0 /\ flips = 0
    /\ credited = NoCredit /\ missed = {} /\ inherited = {}

-----------------------------------------------------------------------------
(***************************************************************************)
(* The feed.                                                               *)
(***************************************************************************)

(* fetch_mid: the cached quote while it is fresh, else that of the first   *)
(* venue that answers, or none.                                            *)
Quotes ==
    IF cache # None /\ clock - cache.at <= CacheAge
    THEN {cache}
    ELSE {None} \cup [venue : Venues, at : {clock}]

Cached(quote) == cache' = IF quote = None THEN cache ELSE quote

(* Mutant: a settlement at the last one applied counts as new. *)
SettlementsAfterInclusive(v) == {t \in prints[v] : t >= since /\ clock - t <= Lookback}

(* fetch_funding_since: what is new on the tape of the venue. *)
SettlementsAfter(v) == {t \in prints[v] : t > since /\ clock - t <= Lookback}

-----------------------------------------------------------------------------
(***************************************************************************)
(* maybe_hedge_spot_fill.  The id is seen and the fee charged before the   *)
(* ledger is asked whether the hedge was booked by an earlier process.     *)
(***************************************************************************)
Refused(id, quote) == engaged \/ quote = None \/ id \in seen \/ position # None

(* Mutant: the ledger is not asked. *)
BookedForgetful(id, quote) ==
    /\ seen' = seen \cup {id} /\ fees' = fees + 1
    /\ position' = [id |-> id, venue |-> quote.venue, at |-> quote.at]
    /\ since' = quote.at
    /\ ledger' = ledger \cup {id}

Booked(id, quote) ==
    /\ seen' = seen \cup {id} /\ fees' = fees + 1
    /\ IF id \in ledger
       THEN UNCHANGED <<position, since, ledger>>
       ELSE /\ position' = [id |-> id, venue |-> quote.venue, at |-> quote.at]
            /\ since' = quote.at
            /\ ledger' = ledger \cup {id}

HedgeSpotFill(id, quote) ==
    IF Refused(id, quote) THEN UNCHANGED <<bookVars, ledger>> ELSE Booked(id, quote)

-----------------------------------------------------------------------------
(***************************************************************************)
(* A cycle.                                                                *)
(***************************************************************************)
BeginCycle ==
    /\ stage = "idle" /\ cycle < MaxCycle
    /\ cycle' = cycle + 1
    /\ stage' = "fill"
    /\ UNCHANGED <<fill, bookVars, cache, ledger, file, filled, envVars,
                   restarts, credited, missed, inherited>>

(* A paper fill is applied and the ledger saved before the hedge. *)
SpotFill(d) ==
    /\ stage = "fill" /\ d \notin filled /\ ~ engaged
    /\ fill' = d /\ filled' = filled \cup {d}
    /\ file' = ledger
    /\ stage' = "hedge"
    /\ UNCHANGED <<cycle, bookVars, cache, ledger, envVars,
                   restarts, credited, missed, inherited>>

NoSpotFill ==
    /\ stage = "fill"
    /\ stage' = "funding"
    /\ UNCHANGED <<cycle, fill, bookVars, cache, ledger, file, filled, envVars,
                   restarts, credited, missed, inherited>>

(* _maybe_hedge_paper_perp. *)
HedgePaperPerp ==
    /\ stage = "hedge"
    /\ \E quote \in Quotes : Cached(quote) /\ HedgeSpotFill(<<"spot", fill>>, quote)
    /\ stage' = "funding" /\ fill' = None
    /\ UNCHANGED <<cycle, file, filled, envVars, restarts, credited, missed, inherited>>

(* Mutant: the next settlements are those after this moment. *)
NewSinceNow(tape) == clock

NewSince(tape) == CHOOSE t \in tape : \A u \in tape : u <= t

(* _maybe_apply_paper_perp_funding and apply_funding; the mark it fetches  *)
(* may come from another venue and is then not used.                       *)
ApplyFunding ==
    /\ stage = "funding" /\ position # None /\ ~ engaged
    /\ LET tape == SettlementsAfter(position.venue)
       IN  /\ tape # {}
           /\ since' = NewSince(tape)
           /\ credited' = [credited EXCEPT ![position.venue] =
                              [t \in Times |-> @[t] + (IF t \in tape THEN 1 ELSE 0)]]
           /\ missed' = missed \cup
                 {t \in prints[position.venue] : t > since /\ clock - t > Lookback}
    /\ \E quote \in Quotes : Cached(quote)
    /\ stage' = "carry"
    /\ UNCHANGED <<cycle, fill, position, seen, fees, ledger, file, filled, envVars,
                   restarts, inherited>>

(* No position, a fetch that fails, an empty tape or the kill switch. *)
NoFunding ==
    /\ stage = "funding"
    /\ stage' = "carry"
    /\ UNCHANGED <<cycle, fill, bookVars, cache, ledger, file, filled, envVars,
                   restarts, credited, missed, inherited>>

(* _maybe_open_carry_diagnostic_hedge: the id is made of the cycle number. *)
OpenCarryHedge ==
    /\ stage = "carry" /\ position = None
    /\ \E quote \in Quotes : Cached(quote) /\ HedgeSpotFill(<<"carry", cycle>>, quote)
    /\ stage' = "idle"
    /\ UNCHANGED <<cycle, fill, file, filled, envVars, restarts, credited, missed, inherited>>

(* The diagnostic is off, a position is open, no mid or no rate. *)
NoCarryHedge ==
    /\ stage = "carry"
    /\ stage' = "idle"
    /\ UNCHANGED <<cycle, fill, bookVars, cache, ledger, file, filled, envVars,
                   restarts, credited, missed, inherited>>

(* A reconciliation pass between two cycles. *)
SaveLedger ==
    /\ stage = "idle" /\ file # ledger
    /\ file' = ledger
    /\ UNCHANGED <<stage, cycle, fill, bookVars, cache, ledger, filled, envVars,
                   restarts, credited, missed, inherited>>

(* The book, the cache and the cycle number are lost, the file is kept. *)
Restart ==
    /\ restarts < MaxRestarts
    /\ restarts' = restarts + 1
    /\ stage' = "idle" /\ cycle' = 0 /\ fill' = None
    /\ position' = None /\ since' = 0 /\ seen' = {} /\ fees' = 0 /\ cache' = None
    /\ ledger' = file /\ inherited' = file
    /\ credited' = NoCredit /\ missed' = {}
    /\ UNCHANGED <<file, filled, envVars>>

-----------------------------------------------------------------------------
procVars == <<stage, cycle, fill, bookVars, cache, ledger, file, filled,
              restarts, credited, missed, inherited>>

Tick ==
    /\ clock < MaxClock
    /\ clock' = clock + 1
    /\ UNCHANGED <<procVars, prints, engaged, flips>>

(* A venue publishes its settlements in order, some time after them. *)
Publish(v) ==
    /\ Cardinality(prints[v]) < MaxPrints
    /\ \E t \in 0 .. clock :
          /\ \A u \in prints[v] : t > u
          /\ prints' = [prints EXCEPT ![v] = @ \cup {t}]
    /\ UNCHANGED <<procVars, clock, engaged, flips>>

FlipKillSwitch ==
    /\ flips < MaxFlips
    /\ flips' = flips + 1 /\ engaged' = ~ engaged
    /\ UNCHANGED <<procVars, clock, prints>>

(* The bound on the cycles is reached. *)
Exhausted == stage = "idle" /\ cycle = MaxCycle /\ UNCHANGED perpVars

PerpNext ==
    \/ BeginCycle \/ (\E d \in Fills : SpotFill(d)) \/ NoSpotFill \/ HedgePaperPerp
    \/ ApplyFunding \/ NoFunding \/ OpenCarryHedge \/ NoCarryHedge
    \/ SaveLedger \/ Restart
    \/ Tick \/ (\E v \in Venues : Publish(v)) \/ FlipKillSwitch
    \/ Exhausted

PerpSpec == PerpInit /\ [][PerpNext]_perpVars

-----------------------------------------------------------------------------
(* Funding is credited from the venue the hedge was quoted on only, each   *)
(* settlement at most once and none from before that quote; and a          *)
(* settlement the book has moved past has been credited, however late it   *)
(* was published or the kill switch was released, unless it had left the   *)
(* tape by then (fetch_funding_since, apply_funding).                      *)
FundingExact ==
    \A v \in Venues, t \in Times :
        /\ credited[v][t] <= 1
        /\ credited[v][t] = 1 => position # None /\ v = position.venue /\ t > position.at
        /\ (/\ position # None /\ v = position.venue
            /\ t \in prints[v] /\ position.at < t /\ t <= since)
              => credited[v][t] = 1 \/ t \in missed

(* The fees of the book are those of its hedge, and of hedges an earlier   *)
(* process booked under the same id: the carry hedge counts its cycles     *)
(* from 1 again after a restart (maybe_hedge_spot_fill).  A hedge that is  *)
(* open is in the ledger, and was not there when the process began.        *)
FeesExplained ==
    LET own == IF position = None THEN {} ELSE {position.id}
    IN  /\ fees = Cardinality(seen)
        /\ own \subseteq seen \cap (ledger \ inherited)
        /\ seen \ own \subseteq inherited
=============================================================================
