--------------------------- MODULE PaperPerpProofs --------------------------
(***************************************************************************)
(* Proofs about PaperPerp, for every set of venues and spot fills, cache   *)
(* age and reach of the tape: funding is credited exactly, and every fee   *)
(* of the book is explained by a hedge.                                    *)
(***************************************************************************)
EXTENDS PaperPerp, FiniteSetTheorems, WellFoundedInduction, TLAPS

Quote == [venue : Venues, at : Times]

PerpTypes ==
    /\ cycle \in 0 .. MaxCycle
    /\ stage = "hedge" => fill \in Fills
    /\ position \in Hedges \cup {None}
    /\ since \in Times /\ clock \in Times
    /\ cache \in Quote \cup {None}
    /\ prints \in [Venues -> SUBSET Times]
    /\ credited \in [Venues -> [Times -> Nat]]

(* What the ledger holds beyond the file the process began with is the     *)
(* hedge of the book, so an id the ledger already knows is an inherited    *)
(* one; and every id is charged when it is first seen.                     *)
HedgeInv ==
    /\ IsFiniteSet(seen)
    /\ fees = Cardinality(seen)
    /\ seen \subseteq ledger
    /\ position = None => ledger = inherited
    /\ position # None =>
          /\ ledger = inherited \cup {position.id}
          /\ position.id \in seen \ inherited

(* since starts at the quote of the hedge and then is a settlement of its  *)
(* venue, so that what the venue publishes later lies after it; no         *)
(* settlement is credited beyond since or before the quote.                *)
FundingInv ==
    /\ position = None => credited = NoCredit
    /\ position # None =>
          /\ position.at <= since
          /\ since = position.at \/ since \in prints[position.venue]
          /\ \A v \in Venues, t \in Times :
                credited[v][t] # 0 =>
                    /\ credited[v][t] = 1
                    /\ v = position.venue /\ position.at < t /\ t <= since
          /\ \A t \in prints[position.venue] :
                position.at < t /\ t <= since
                    => credited[position.venue][t] = 1 \/ t \in missed

PerpInv == PerpTypes /\ HedgeInv /\ FundingInv

-----------------------------------------------------------------------------
(* Every non-empty set of moments has a latest one. *)
LEMMA LatestMoment ==
    ASSUME NEW S \in SUBSET Times, S # {}
    PROVE  \E t \in S : \A u \in S : u <= t
<1> DEFINE R == {MaxClock - t : t \in S}
<1>1. R \subseteq Nat /\ R # {}
  <2>1. MaxClock \in Nat
    BY PerpAssumption
  <2>2. \A t \in S : MaxClock - t \in Nat
    BY <2>1 DEF Times
  <2> QED
    BY <2>2
<1>2. PICK n \in R : \A m \in R : <<m, n>> \notin OpToRel(<, Nat)
  <2>1. IsWellFoundedOn(OpToRel(<, Nat), Nat)
    BY NatLessThanWellFounded
  <2> QED
    BY <1>1, <2>1, WFMin
<1>3. \A m \in R : n <= m
  <2> HIDE DEF R
  <2> TAKE m \in R
  <2>1. m \in Nat /\ n \in Nat
    BY <1>1
  <2>2. ~ (m < n)
    BY <1>2, <2>1 DEF OpToRel
  <2> QED
    BY <2>1, <2>2
<1>4. PICK t \in S : n = MaxClock - t
  OBVIOUS
<1>5. \A u \in S : MaxClock - t <= MaxClock - u
  BY <1>3, <1>4
<1> QED
  BY <1>5, PerpAssumption DEF Times

(* _maybe_apply_paper_perp_funding moves on to the latest settlement. *)
LEMMA NewSinceIsLatest ==
    ASSUME NEW S \in SUBSET Times, S # {}
    PROVE  NewSince(S) \in S /\ \A u \in S : u <= NewSince(S)
  BY LatestMoment DEF NewSince

(* A quote is of a venue and of no later than now. *)
LEMMA QuoteType ==
    ASSUME PerpTypes, NEW quote \in Quotes, quote # None
    PROVE  quote \in Quote
  BY DEF PerpTypes, Quotes, Quote

(* maybe_hedge_spot_fill keeps the books in agreement. *)
LEMMA HedgeStep ==
    ASSUME PerpInv, NEW id \in HedgeIds, NEW quote \in Quotes,
           Cached(quote), HedgeSpotFill(id, quote),
           UNCHANGED <<clock, prints, credited, missed, inherited>>
    PROVE  /\ position' \in Hedges \cup {None} /\ since' \in Times
           /\ cache' \in Quote \cup {None}
           /\ HedgeInv' /\ FundingInv'
<1>1. cache' \in Quote \cup {None}
  BY QuoteType DEF PerpInv, PerpTypes, Cached
<1>2. CASE Refused(id, quote)
  BY <1>1, <1>2 DEF HedgeSpotFill, PerpInv, PerpTypes, HedgeInv, FundingInv, bookVars
<1>3. CASE ~ Refused(id, quote)
  <2>1. /\ Booked(id, quote)
        /\ quote # None /\ id \notin seen /\ position = None
    BY <1>3 DEF HedgeSpotFill, Refused
  <2>2. quote \in Quote /\ quote.venue \in Venues /\ quote.at \in Times
    BY <2>1, QuoteType DEF PerpInv, Quote
  <2>3. /\ IsFiniteSet(seen') /\ fees' = Cardinality(seen')
        /\ seen' = seen \cup {id}
    BY <2>1, FS_AddElement DEF Booked, PerpInv, HedgeInv
  <2>4. ledger = inherited /\ credited = NoCredit /\ seen \subseteq ledger
    BY <2>1 DEF PerpInv, HedgeInv, FundingInv
  <2>5. CASE id \in ledger
    <3>1. UNCHANGED <<position, since, ledger>>
      BY <2>1, <2>5 DEF Booked
    <3>2. HedgeInv'
      BY <2>1, <2>3, <2>4, <2>5, <3>1 DEF HedgeInv
    <3>3. FundingInv'
      BY <2>1, <2>4, <3>1 DEF FundingInv, NoCredit
    <3> QED
      BY <1>1, <3>1, <3>2, <3>3 DEF PerpInv, PerpTypes
  <2>6. CASE id \notin ledger
    <3>1. /\ position' = [id |-> id, venue |-> quote.venue, at |-> quote.at]
          /\ since' = quote.at
          /\ ledger' = ledger \cup {id}
      BY <2>1, <2>6 DEF Booked
    <3>2. /\ position' \in Hedges /\ position' # None
          /\ position'.id = id /\ position'.venue = quote.venue
          /\ position'.at = quote.at
      BY <2>2, <3>1, PerpAssumption DEF Hedges
    <3>3. HedgeInv'
      BY <2>3, <2>4, <2>6, <3>1, <3>2 DEF HedgeInv
    <3>4. \A v \in Venues, t \in Times : credited'[v][t] = 0
      BY <2>4 DEF NoCredit
    <3>5. since' = position'.at /\ position'.at \in Nat
      BY <2>2, <3>1, <3>2 DEF Times
    <3>6. \A t \in prints'[position'.venue] : t \in Nat
      BY <2>2, <3>2 DEF PerpInv, PerpTypes, Times
    <3>7. FundingInv'
      BY <3>2, <3>4, <3>5, <3>6 DEF FundingInv
    <3> QED
      BY <1>1, <2>2, <3>1, <3>2, <3>3, <3>7
  <2> QED
    BY <2>5, <2>6
<1> QED
  BY <1>2, <1>3

(* apply_funding credits what lies after since and moves since past it. *)
LEMMA FundingStep ==
    ASSUME PerpInv, ApplyFunding
    PROVE  /\ since' \in Times
           /\ credited' \in [Venues -> [Times -> Nat]]
           /\ FundingInv'
<1> DEFINE tape == SettlementsAfter(position.venue)
           here == position.venue
<1>1. position # None /\ position \in Hedges /\ here \in Venues /\ position.at \in Nat
  BY DEF ApplyFunding, PerpInv, PerpTypes, Hedges, Times
<1>2. /\ tape # {} /\ since' = NewSince(tape)
      /\ credited' = [credited EXCEPT ![here] =
             [t \in Times |-> credited[here][t] + (IF t \in tape THEN 1 ELSE 0)]]
      /\ missed' = missed \cup {t \in prints[here] : t > since /\ clock - t > Lookback}
      /\ UNCHANGED <<position, prints, clock>>
  BY DEF ApplyFunding, envVars
<1>3. prints[here] \subseteq Times /\ since \in Nat /\ clock \in Nat
  BY <1>1 DEF PerpInv, PerpTypes, Times
<1>4. /\ tape \subseteq Times
      /\ \A t \in prints[here] : t \in tape <=> t > since /\ clock - t <= Lookback
      /\ \A t \in tape : t \in prints[here] /\ t > since
  BY <1>3 DEF SettlementsAfter
<1> HIDE DEF tape
<1>5. since' \in tape /\ \A t \in tape : t <= since'
  BY <1>2, <1>4, NewSinceIsLatest
<1>6. credited \in [Venues -> [Times -> Nat]]
  BY DEF PerpInv, PerpTypes
<1>7. /\ \A t \in Times : credited'[here][t] =
             credited[here][t] + (IF t \in tape THEN 1 ELSE 0)
      /\ \A v \in Venues \ {here} : credited'[v] = credited[v]
      /\ credited' \in [Venues -> [Times -> Nat]]
  BY <1>1, <1>2, <1>6
<1>8. /\ position.at <= since
      /\ \A v \in Venues, t \in Times :
            credited[v][t] # 0 =>
                credited[v][t] = 1 /\ v = here /\ position.at < t /\ t <= since
      /\ \A t \in prints[here] :
            position.at < t /\ t <= since => credited[here][t] = 1 \/ t \in missed
  BY <1>1 DEF PerpInv, FundingInv
<1>9. since' \in Nat /\ since < since' /\ since' \in prints[here]
  BY <1>3, <1>4, <1>5 DEF Times
<1>10. ASSUME NEW v \in Venues, NEW t \in Times, credited'[v][t] # 0
       PROVE  credited'[v][t] = 1 /\ v = here /\ position.at < t /\ t <= since'
  <2>1. v = here
    BY <1>7, <1>8, <1>10
  <2>2. credited[here][t] \in Nat /\ t \in Nat
    <3>1. credited[here][t] \in Nat
      BY <1>1, <1>6
    <3> QED
      BY <3>1 DEF Times
  <2>3. CASE t \in tape
    <3>1. t > since /\ t <= since' /\ credited[here][t] = 0
      BY <1>1, <1>3, <1>4, <1>5, <1>8, <2>2, <2>3
    <3>2. credited'[here][t] = 1
      BY <1>7, <2>3, <3>1
    <3> QED
      BY <1>1, <1>3, <1>8, <2>1, <2>2, <3>1, <3>2
  <2>4. CASE t \notin tape
    <3>1. credited'[here][t] = credited[here][t]
      BY <1>7, <2>2, <2>4
    <3> QED
      BY <1>1, <1>3, <1>8, <1>9, <1>10, <2>1, <2>2, <3>1
  <2> QED
    BY <2>3, <2>4
<1>11. ASSUME NEW t \in prints[here], position.at < t, t <= since'
       PROVE  credited'[here][t] = 1 \/ t \in missed'
  <2>1. t \in Times /\ t \in Nat /\ credited[here][t] \in Nat
    <3>1. t \in Times
      BY <1>3
    <3>2. credited[here][t] \in Nat
      BY <1>1, <1>6, <3>1
    <3> QED
      BY <3>1, <3>2 DEF Times
  <2>2. CASE t \in tape
    <3>1. credited[here][t] = 0
      BY <1>1, <1>3, <1>4, <1>8, <2>1, <2>2
    <3> QED
      BY <1>7, <2>1, <2>2, <3>1
  <2>3. CASE t \notin tape /\ t <= since
    <3>1. credited[here][t] = 1 \/ t \in missed
      BY <1>8, <1>11, <2>3
    <3> QED
      BY <1>2, <1>7, <2>1, <2>3, <3>1
  <2>4. CASE t \notin tape /\ t > since
    <3>1. clock - t > Lookback
      BY <1>3, <1>4, <2>1, <2>4, PerpAssumption
    <3> QED
      BY <1>2, <2>4, <3>1
  <2> QED
    BY <1>3, <2>1, <2>2, <2>3, <2>4
<1>12. FundingInv'
  <2>1. position.at <= since'
    BY <1>1, <1>3, <1>8, <1>9
  <2> HIDE DEF here
  <2> QED
    BY <1>1, <1>2, <1>9, <1>10, <1>11, <2>1 DEF FundingInv, here
<1> QED
  BY <1>4, <1>5, <1>7, <1>12

-----------------------------------------------------------------------------
(* A step that leaves the book, the ledger and the history alone. *)
LEMMA BookUntouched ==
    ASSUME PerpInv, UNCHANGED <<bookVars, ledger, prints, credited, missed, inherited>>
    PROVE  HedgeInv' /\ FundingInv'
  BY DEF PerpInv, HedgeInv, FundingInv, bookVars, NoCredit

(* What a venue publishes now lies after every settlement it published,    *)
(* hence after since once a settlement has been applied.                   *)
LEMMA PublishStep ==
    ASSUME PerpInv, NEW v \in Venues, Publish(v)
    PROVE  PerpInv'
<1>1. PICK t \in 0 .. clock :
         /\ \A u \in prints[v] : t > u
         /\ prints' = [prints EXCEPT ![v] = prints[v] \cup {t}]
  BY DEF Publish
<1>2. UNCHANGED <<procVars, clock>>
  BY DEF Publish
<1>3. t \in Times
  BY PerpAssumption DEF PerpInv, PerpTypes, Times
<1>4. PerpTypes'
  BY <1>1, <1>2, <1>3 DEF PerpInv, PerpTypes, procVars, bookVars
<1>5. HedgeInv'
  BY <1>2 DEF PerpInv, HedgeInv, procVars, bookVars
<1>6. FundingInv'
  <2>1. UNCHANGED <<position, since, credited, missed>>
    BY <1>2 DEF procVars, bookVars
  <2>2. CASE position = None
    BY <2>1, <2>2 DEF PerpInv, FundingInv, NoCredit
  <2>3. CASE position # None
    <3>1. position.venue \in Venues /\ position.at \in Nat /\ since \in Nat /\ t \in Nat
      BY <1>3, <2>3 DEF PerpInv, PerpTypes, Hedges, Times
    <3>2. /\ prints'[v] = prints[v] \cup {t}
          /\ \A w \in Venues \ {v} : prints'[w] = prints[w]
      BY <1>1 DEF PerpInv, PerpTypes
    <3>3. position.venue = v /\ position.at < t => t > since
      BY <1>1, <2>3, <3>1 DEF PerpInv, FundingInv
    <3>4. since = position.at \/ since \in prints'[position.venue]
      BY <2>3, <3>1, <3>2 DEF PerpInv, FundingInv
    <3>5. \A u \in prints'[position.venue] :
             position.at < u /\ u <= since
                 => credited[position.venue][u] = 1 \/ u \in missed
      BY <2>3, <3>1, <3>2, <3>3 DEF PerpInv, FundingInv
    <3> QED
      BY <2>1, <2>3, <3>4, <3>5 DEF PerpInv, FundingInv
  <2> QED
    BY <2>2, <2>3
<1> QED
  BY <1>4, <1>5, <1>6 DEF PerpInv

LEMMA PerpStep == PerpInv /\ [PerpNext]_perpVars => PerpInv'
<1> SUFFICES ASSUME PerpInv, [PerpNext]_perpVars PROVE PerpInv'
  OBVIOUS
<1>1. CASE BeginCycle
  <2>1. PerpTypes'
    BY <1>1, PerpAssumption
       DEF BeginCycle, PerpInv, PerpTypes, bookVars, envVars
  <2>2. HedgeInv' /\ FundingInv'
    BY <1>1, BookUntouched DEF BeginCycle, envVars
  <2> QED
    BY <2>1, <2>2 DEF PerpInv
<1>2. ASSUME NEW d \in Fills, SpotFill(d) PROVE PerpInv'
  <2>1. PerpTypes'
    BY <1>2 DEF SpotFill, PerpInv, PerpTypes, bookVars, envVars
  <2>2. HedgeInv' /\ FundingInv'
    BY <1>2, BookUntouched DEF SpotFill, envVars
  <2> QED
    BY <2>1, <2>2 DEF PerpInv
<1>3. CASE NoSpotFill \/ NoFunding \/ NoCarryHedge
  <2>1. PerpTypes'
    BY <1>3 DEF NoSpotFill, NoFunding, NoCarryHedge, PerpInv, PerpTypes, bookVars, envVars
  <2>2. HedgeInv' /\ FundingInv'
    BY <1>3, BookUntouched DEF NoSpotFill, NoFunding, NoCarryHedge, envVars
  <2> QED
    BY <2>1, <2>2 DEF PerpInv
<1>4. CASE HedgePaperPerp
  <2>1. PICK quote \in Quotes : Cached(quote) /\ HedgeSpotFill(<<"spot", fill>>, quote)
    BY <1>4 DEF HedgePaperPerp
  <2>2. <<"spot", fill>> \in HedgeIds
    BY <1>4 DEF HedgePaperPerp, PerpInv, PerpTypes, HedgeIds
  <2>3. /\ position' \in Hedges \cup {None} /\ since' \in Times
        /\ cache' \in Quote \cup {None}
        /\ HedgeInv' /\ FundingInv'
    BY <1>4, <2>1, <2>2, HedgeStep DEF HedgePaperPerp, envVars
  <2> QED
    BY <1>4, <2>3 DEF HedgePaperPerp, PerpInv, PerpTypes, envVars
<1>5. CASE ApplyFunding
  <2>1. since' \in Times /\ credited' \in [Venues -> [Times -> Nat]] /\ FundingInv'
    BY <1>5, FundingStep
  <2>2. PICK quote \in Quotes : Cached(quote)
    BY <1>5 DEF ApplyFunding
  <2>3. cache' \in Quote \cup {None}
    BY <2>2, QuoteType DEF PerpInv, PerpTypes, Cached
  <2>4. HedgeInv'
    BY <1>5 DEF ApplyFunding, PerpInv, HedgeInv
  <2> QED
    BY <1>5, <2>1, <2>3, <2>4 DEF ApplyFunding, PerpInv, PerpTypes, envVars
<1>6. CASE OpenCarryHedge
  <2>1. PICK quote \in Quotes : Cached(quote) /\ HedgeSpotFill(<<"carry", cycle>>, quote)
    BY <1>6 DEF OpenCarryHedge
  <2>2. <<"carry", cycle>> \in HedgeIds
    BY DEF PerpInv, PerpTypes, HedgeIds
  <2>3. /\ position' \in Hedges \cup {None} /\ since' \in Times
        /\ cache' \in Quote \cup {None}
        /\ HedgeInv' /\ FundingInv'
    BY <1>6, <2>1, <2>2, HedgeStep DEF OpenCarryHedge, envVars
  <2> QED
    BY <1>6, <2>3 DEF OpenCarryHedge, PerpInv, PerpTypes, envVars
<1>7. CASE SaveLedger
  <2>1. PerpTypes'
    BY <1>7 DEF SaveLedger, PerpInv, PerpTypes, bookVars, envVars
  <2>2. HedgeInv' /\ FundingInv'
    BY <1>7, BookUntouched DEF SaveLedger, envVars
  <2> QED
    BY <2>1, <2>2 DEF PerpInv
<1>8. CASE Restart
  <2>1. PerpTypes'
    BY <1>8, PerpAssumption DEF Restart, PerpInv, PerpTypes, envVars, Times, NoCredit
  <2>2. HedgeInv'
    BY <1>8, FS_EmptySet DEF Restart, HedgeInv
  <2>3. FundingInv'
    BY <1>8 DEF Restart, FundingInv, NoCredit
  <2> QED
    BY <2>1, <2>2, <2>3 DEF PerpInv
<1>9. CASE Tick
  <2>1. PerpTypes'
    BY <1>9, PerpAssumption DEF Tick, PerpInv, PerpTypes, procVars, bookVars, Times
  <2>2. HedgeInv' /\ FundingInv'
    BY <1>9, BookUntouched DEF Tick, procVars
  <2> QED
    BY <2>1, <2>2 DEF PerpInv
<1>10. ASSUME NEW v \in Venues, Publish(v) PROVE PerpInv'
  BY <1>10, PublishStep
<1>11. CASE FlipKillSwitch
  <2>1. PerpTypes'
    BY <1>11 DEF FlipKillSwitch, PerpInv, PerpTypes, procVars, bookVars
  <2>2. HedgeInv' /\ FundingInv'
    BY <1>11, BookUntouched DEF FlipKillSwitch, procVars
  <2> QED
    BY <2>1, <2>2 DEF PerpInv
<1>12. CASE Exhausted \/ UNCHANGED perpVars
  <2>1. PerpTypes'
    BY <1>12 DEF Exhausted, perpVars, PerpInv, PerpTypes, bookVars, envVars
  <2>2. HedgeInv' /\ FundingInv'
    BY <1>12, BookUntouched DEF Exhausted, perpVars, envVars
  <2> QED
    BY <2>1, <2>2 DEF PerpInv
<1> QED
  BY <1>1, <1>2, <1>3, <1>4, <1>5, <1>6, <1>7, <1>8, <1>9, <1>10, <1>11, <1>12
     DEF PerpNext

-----------------------------------------------------------------------------
(* The inductive invariant of the paper perpetual holds. *)
THEOREM PerpInvariance == PerpSpec => []PerpInv
<1>1. PerpInit => PerpInv
  <2> SUFFICES ASSUME PerpInit PROVE PerpInv
    OBVIOUS
  <2>1. PerpTypes
    BY PerpAssumption DEF PerpInit, PerpTypes, Times, NoCredit
  <2>2. HedgeInv
    BY FS_EmptySet DEF PerpInit, HedgeInv
  <2>3. FundingInv
    BY DEF PerpInit, FundingInv
  <2> QED
    BY <2>1, <2>2, <2>3 DEF PerpInv
<1> QED
  BY <1>1, PerpStep, PTL DEF PerpSpec

(***************************************************************************)
(* Funding is exact (FundingExact): each settlement of the venue of the    *)
(* hedge is credited at most once, none from before its quote or of        *)
(* another venue, and none is skipped that was still on the tape, however  *)
(* publication, cycles and the kill switch interleave.                     *)
(***************************************************************************)
THEOREM FundingIsExact == PerpSpec => []FundingExact
<1>1. PerpInv => FundingExact
  <2> SUFFICES ASSUME PerpInv, NEW v \in Venues, NEW t \in Times
               PROVE  /\ credited[v][t] <= 1
                      /\ credited[v][t] = 1 =>
                            position # None /\ v = position.venue /\ t > position.at
                      /\ (/\ position # None /\ v = position.venue
                          /\ t \in prints[v] /\ position.at < t /\ t <= since)
                            => credited[v][t] = 1 \/ t \in missed
    BY DEF FundingExact
  <2>1. credited[v][t] \in Nat /\ t \in Nat
    <3>1. credited[v][t] \in Nat
      BY DEF PerpInv, PerpTypes
    <3> QED
      BY <3>1 DEF Times
  <2>2. CASE position = None
    <3>1. credited[v][t] = 0
      BY <2>2 DEF PerpInv, FundingInv, NoCredit
    <3> QED
      BY <2>2, <3>1
  <2>3. CASE position # None
    <3>1. position.at \in Nat
      BY <2>3 DEF PerpInv, PerpTypes, Hedges, Times
    <3>2. credited[v][t] # 0 => credited[v][t] = 1 /\ v = position.venue /\ position.at < t
      BY <2>3 DEF PerpInv, FundingInv
    <3>3. v = position.venue /\ t \in prints[v] /\ position.at < t /\ t <= since
             => credited[v][t] = 1 \/ t \in missed
      BY <2>3 DEF PerpInv, FundingInv
    <3> QED
      BY <2>1, <2>3, <3>1, <3>2, <3>3
  <2> QED
    BY <2>2, <2>3
<1> QED
  BY <1>1, PerpInvariance, PTL

(***************************************************************************)
(* The fees of the book are explained (FeesExplained): one for each id it  *)
(* has seen, which is its own hedge or one an earlier process booked, and  *)
(* its own hedge is in the ledger and new there.                           *)
(***************************************************************************)
THEOREM FeesAreExplained == PerpSpec => []FeesExplained
<1>1. PerpInv => FeesExplained
  <2> SUFFICES ASSUME PerpInv PROVE FeesExplained
    OBVIOUS
  <2>1. CASE position = None
    BY <2>1 DEF PerpInv, HedgeInv, FeesExplained
  <2>2. CASE position # None
    BY <2>2 DEF PerpInv, HedgeInv, FeesExplained
  <2> QED
    BY <2>1, <2>2
<1> QED
  BY <1>1, PerpInvariance, PTL
=============================================================================
