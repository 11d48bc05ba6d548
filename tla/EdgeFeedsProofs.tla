-------------------------- MODULE EdgeFeedsProofs ---------------------------
(* Proofs about EdgeFeeds, for any windows, ages, clocks and budgets: what    *)
(* the cycle reads of a feed is exact, and a feed that gave up is missing.    *)
EXTENDS EdgeFeeds, SumLemmas

-----------------------------------------------------------------------------
(* Outages: each loop counts the failures since its last item, and gives up   *)
(* when they exceed the budget. A value read from a feed is no younger than   *)
(* the moment the feed gave up.                                               *)

Moment == Nat \cup {Never}

Stream == [link : {"off", "open", "backoff", "exhausted"}, attempt : Nat]

(* A stream with its failures, the moment it gave up, and the clock.          *)
StreamSound(stream, failed, ended, t) ==
  /\ stream \in Stream
  /\ failed = stream.attempt
  /\ IF stream.link = "exhausted"
       THEN ended \in 0..t /\ stream.attempt = MaxReconnects + 1
       ELSE ended = Never /\ stream.attempt <= MaxReconnects

(* A value m of a feed is no younger than the clock, or the feed's end.       *)
NoYounger(m, ended, t, ahead) ==
  m # Never => m <= t + ahead /\ (ended # Never => m <= ended + ahead)

OutageInv ==
  /\ now \in Nat /\ skew \in Nat
  /\ failures \in [Feeds -> Nat] /\ endedAt \in [Feeds -> Moment]
  /\ StreamSound(liq, failures["liq"], endedAt["liq"], now)
  /\ StreamSound(ticker, failures["ticker"], endedAt["ticker"], now)
  /\ lastMessage \in Moment /\ NoYounger(lastMessage, endedAt["liq"], now, 0)
  /\ latest \in Moment /\ NoYounger(latest, endedAt["ticker"], now, skew)
  /\ tickerWire \in Seq(Nat)
  /\ \A i \in DOMAIN tickerWire : tickerWire[i] <= now + skew

-----------------------------------------------------------------------------
(* Windows: events are ingested in the order of their times. The bucket in    *)
(* progress is that of the last event, and while its window lasts by the      *)
(* local clock it holds all of its events.                                    *)

Bucket == [start : Nat, sum : Nat]

Side == [buckets : Seq(Bucket), start : Windows \cup {Never}, sum : Nat, count : Nat]

Event == [side : Sides, at : Nat]

WireOrdered ==
  \A i, j \in DOMAIN liqWire.queue : i <= j => liqWire.queue[i].at <= liqWire.queue[j].at

WireAhead ==
  \A i \in DOMAIN liqWire.queue :
    /\ liqWire.queue[i].at <= now + skew
    /\ \A s \in Sides : lastEvent[s] # Never => lastEvent[s] <= liqWire.queue[i].at

SideSound(s) ==
  /\ sides[s].sum = Notional * sides[s].count
  /\ sides[s].start = Never => sides[s].count = 0
  /\ sides[s].start # Never => lastEvent[s] # Never /\ sides[s].start = Align(lastEvent[s])
  /\ lastEvent[s] # Never => lastEvent[s] <= now + skew

(* The bucket in progress is whole while its window lasts.                    *)
SideWhole(s) ==
  lastEvent[s] # Never /\ now < Align(lastEvent[s]) + Window =>
    /\ sides[s].start = Align(lastEvent[s])
    /\ sides[s].count = counted[s][Align(lastEvent[s])]

(* Nothing is counted past the last event.                                    *)
NoneLater(s) ==
  \A w \in Windows :
    (lastEvent[s] = Never \/ Align(lastEvent[s]) < w) => counted[s][w] = 0

WindowType ==
  /\ now \in 0..MaxClock /\ skew \in 0..MaxSkew
  /\ liqWire \in [queue : Seq(Event), sent : Nat]
  /\ sides \in [Sides -> Side]
  /\ counted \in [Sides -> [Windows -> Nat]]
  /\ lastEvent \in [Sides -> Moment]

WindowInv ==
  /\ WindowType /\ WireOrdered /\ WireAhead
  /\ \A s \in Sides : SideSound(s) /\ SideWhole(s) /\ NoneLater(s)
  /\ BaselineExact

-----------------------------------------------------------------------------
(* Windows of time.                                                           *)

LEMMA EdgeSettings ==
  /\ Window \in Nat \ {0} /\ Notional \in Nat \ {0} /\ CountCap \in Nat \ {0}
  /\ Baseline \in Nat /\ LiqMaxAge \in Nat /\ TickerMaxAge \in Nat
  /\ MaxSkew \in Nat /\ MaxClock \in Nat /\ Never \notin Nat /\ MaxReconnects \in Nat
  BY EdgeAssumption, StreamingAssumption

LEMMA Remainder ==
  ASSUME NEW t \in Int, NEW n \in Int, n > 0
  PROVE  /\ t % n = t - n * (t \div n) /\ t \div n \in Int
         /\ t % n \in Int /\ 0 <= t % n /\ t % n < n
         /\ t >= 0 => t \div n >= 0
<1>1. t % n = t - n * (t \div n)
  BY Z3
<1>2. t \div n \in Int /\ t % n \in Int /\ 0 <= t % n /\ t % n < n
  OBVIOUS
<1>3. t >= 0 => t \div n >= 0
  OBVIOUS
<1> QED
  BY <1>1, <1>2, <1>3

LEMMA WindowStart ==
  ASSUME NEW t \in Nat
  PROVE  /\ Align(t) \in Nat /\ Align(t) <= t /\ t < Align(t) + Window
         /\ \E k \in Nat : Align(t) = k * Window
<1> DEFINE q == t \div Window
           r == t % Window
<1>1. Window \in Nat \ {0}
  BY EdgeSettings
<1>2. r = t - Window * q /\ q \in Nat /\ r \in Nat /\ r < Window
  BY <1>1, Remainder
<1>3. Align(t) = t - r
  BY DEF Align
<1> HIDE DEF q, r
<1>4. Align(t) = q * Window
  BY <1>1, <1>2, <1>3
<1>5. q * Window \in Nat
  BY <1>1, <1>2
<1> QED
  BY <1>1, <1>2, <1>3, <1>4, <1>5

LEMMA MultiplesApart ==
  ASSUME NEW n \in Nat \ {0}, NEW j \in Nat, NEW k \in Nat, j * n < k * n
  PROVE  j * n + n <= k * n
<1>1. j < k
  <2> SUFFICES ASSUME k <= j PROVE FALSE
    OBVIOUS
  <2>1. k * n <= j * n
    OBVIOUS
  <2> QED
    BY <2>1
<1>2. (j + 1) * n <= k * n
  BY <1>1
<1> QED
  BY <1>2

(* Windows do not overlap, and follow the order of time.                      *)
LEMMA WindowsApart ==
  ASSUME NEW t \in Nat, NEW u \in Nat
  PROVE  /\ Align(t) < Align(u) => Align(t) + Window <= Align(u)
         /\ t <= u => Align(t) <= Align(u)
<1>1. /\ Align(t) \in Nat /\ Align(t) <= t /\ t < Align(t) + Window
      /\ Align(u) \in Nat /\ Align(u) <= u /\ u < Align(u) + Window
  BY WindowStart
<1>2. PICK j \in Nat : Align(t) = j * Window
  BY WindowStart
<1>3. PICK k \in Nat : Align(u) = k * Window
  BY WindowStart
<1>4. Window \in Nat \ {0}
  BY EdgeSettings
<1>5. Align(t) < Align(u) => Align(t) + Window <= Align(u)
  BY <1>2, <1>3, <1>4, MultiplesApart
<1>6. Align(u) < Align(t) => Align(u) + Window <= Align(t)
  BY <1>2, <1>3, <1>4, MultiplesApart
<1> QED
  BY <1>1, <1>4, <1>5, <1>6

LEMMA WindowsAreNats == Windows \subseteq Nat
<1>1. \A t \in Times : t \in Nat
  BY EdgeSettings DEF Times
<1> QED
  BY <1>1, WindowStart DEF Windows

-----------------------------------------------------------------------------
(* What prune and the closing of a bucket do to the totals of a window.       *)

BucketSums(buckets) == [i \in DOMAIN buckets |-> buckets[i].sum]

Having(buckets, w) == {i \in DOMAIN buckets : buckets[i].start = w}

LEMMA ClosedTotalIsSum ==
  ASSUME NEW buckets \in Seq(Bucket), NEW w
  PROVE  /\ ClosedTotal(buckets, w) = SumOver(BucketSums(buckets), Having(buckets, w))
         /\ IsFiniteSet(Having(buckets, w)) /\ Having(buckets, w) \in SUBSET Nat
         /\ \A i \in DOMAIN buckets : /\ BucketSums(buckets)[i] = buckets[i].sum
                                      /\ BucketSums(buckets)[i] \in Nat
         /\ ClosedTotal(buckets, w) \in Nat
<1>1. ClosedTotal(buckets, w) = SumOver(BucketSums(buckets), Having(buckets, w))
  BY DEF ClosedTotal, SumOver, BucketSums, Having
<1>2. IsFiniteSet(1..Len(buckets)) /\ DOMAIN buckets = 1..Len(buckets)
  BY FS_Interval
<1>3. Having(buckets, w) \in SUBSET DOMAIN buckets
  BY DEF Having
<1>4. IsFiniteSet(Having(buckets, w)) /\ Having(buckets, w) \in SUBSET Nat
  BY <1>2, <1>3, FS_Subset
<1>5. \A i \in DOMAIN buckets : /\ BucketSums(buckets)[i] = buckets[i].sum
                                /\ BucketSums(buckets)[i] \in Nat
  <2>1. \A i \in DOMAIN buckets : buckets[i] \in Bucket
    OBVIOUS
  <2>2. \A i \in DOMAIN buckets : BucketSums(buckets)[i] = buckets[i].sum
    BY DEF BucketSums
  <2> QED
    BY <2>1, <2>2 DEF Bucket
<1>6. SumOver(BucketSums(buckets), Having(buckets, w)) \in Nat
  BY <1>3, <1>4, <1>5, SumOfNats
<1> QED
  BY <1>1, <1>4, <1>5, <1>6

(* A bucket that is closed adds its sum to its window.                        *)
LEMMA ClosingAdds ==
  ASSUME NEW buckets \in Seq(Bucket), NEW x \in Bucket, NEW w
  PROVE  /\ Append(buckets, x) \in Seq(Bucket)
         /\ ClosedTotal(Append(buckets, x), w)
              = ClosedTotal(buckets, w) + (IF x.start = w THEN x.sum ELSE 0)
<1> DEFINE b == Append(buckets, x)
           n == Len(buckets) + 1
           e == BucketSums(b)
           d == BucketSums(buckets)
           H == Having(b, w)
           G == Having(buckets, w)
<1>1. /\ b \in Seq(Bucket) /\ DOMAIN b = 1..n /\ DOMAIN buckets = 1..(n - 1) /\ n \in Nat \ {0}
      /\ b[n] = x /\ \A i \in 1..(n - 1) : b[i] = buckets[i]
  OBVIOUS
<1>2. /\ ClosedTotal(b, w) = SumOver(e, H) /\ IsFiniteSet(H)
      /\ \A i \in DOMAIN b : e[i] = b[i].sum /\ e[i] \in Nat
  BY <1>1, ClosedTotalIsSum
<1>3. /\ ClosedTotal(buckets, w) = SumOver(d, G) /\ IsFiniteSet(G) /\ SumOver(d, G) \in Nat
      /\ \A i \in DOMAIN buckets : d[i] = buckets[i].sum /\ d[i] \in Nat
  BY ClosedTotalIsSum
<1>4. G \subseteq 1..(n - 1) /\ \A i \in G : d[i] = e[i] /\ d[i] \in Int
  <2>1. G \subseteq 1..(n - 1)
    BY <1>1 DEF Having
  <2> HIDE DEF b, d, e, G, n
  <2>2. ASSUME NEW i \in G PROVE d[i] = e[i] /\ d[i] \in Int
    <3>1. i \in 1..(n - 1) /\ i \in 1..n
      BY <1>1, <2>1
    <3>2. b[i] = buckets[i]
      BY <1>1, <3>1
    <3>3. e[i] = b[i].sum /\ d[i] = buckets[i].sum /\ d[i] \in Nat
      BY <1>1, <1>2, <1>3, <3>1
    <3> QED
      BY <3>2, <3>3
  <2> QED
    BY <2>1, <2>2
<1>5. H = IF x.start = w THEN G \cup {n} ELSE G
  BY <1>1 DEF Having
<1> HIDE DEF b, d, e, G, H, n
<1>6. SumOver(e, G) = SumOver(d, G)
  BY <1>3, <1>4, SumSame
<1>7. CASE x.start = w
  <2>1. n \in H /\ H \ {n} = G
    BY <1>1, <1>4, <1>5, <1>7
  <2>2. \A i \in H : e[i] \in Int
    BY <1>1, <1>2 DEF H, Having
  <2>3. SumOver(e, H) = e[n] + SumOver(e, H \ {n})
    BY <1>2, <2>1, <2>2, SumRemove
  <2>4. e[n] = x.sum /\ x.sum \in Nat
    <3>1. n \in DOMAIN b
      BY <1>1
    <3>2. x.sum \in Nat
      BY DEF Bucket
    <3> QED
      BY <1>1, <1>2, <3>1, <3>2
  <2>5. SumOver(e, H) = SumOver(d, G) + x.sum
    <3>1. SumOver(e, H \ {n}) = SumOver(e, G)
      BY <2>1
    <3>2. SumOver(e, H) = x.sum + SumOver(d, G)
      BY <1>6, <2>3, <2>4, <3>1
    <3>3. SumOver(d, G) \in Nat /\ x.sum \in Nat
      BY <1>3, <2>4
    <3> QED
      BY <3>2, <3>3
  <2> QED
    BY <1>1, <1>2, <1>3, <1>7, <2>5 DEF b
<1>8. CASE x.start # w
  BY <1>1, <1>2, <1>3, <1>5, <1>6, <1>8 DEF b
<1> QED
  BY <1>7, <1>8

LEMMA SmallestExists ==
  ASSUME NEW S \in SUBSET Nat, S # {}
  PROVE  \E k \in S : \A i \in S : k <= i
<1> DEFINE R == OpToRel(<, Nat)
<1>1. IsWellFoundedOn(R, Nat)
  BY NatLessThanWellFounded
<1>2. \A x, y \in Nat : x < y => <<x, y>> \in R
  BY DEF OpToRel
<1> HIDE DEF R
<1>3. PICK k \in S : \A i \in S : ~ (<<i, k>> \in R)
  BY <1>1, WFMin
<1>4. ASSUME NEW i \in S PROVE k <= i
  <2>1. i \in Nat /\ k \in Nat /\ ~ (i < k)
    BY <1>2, <1>3
  <2> QED
    BY <2>1
<1> QED
  BY <1>4

(* Pruning at t keeps the totals of the windows that are young at t.          *)
LEMMA PruningKeeps ==
  ASSUME NEW buckets \in Seq(Bucket), NEW t \in Nat
  PROVE  /\ Prune(buckets, t) \in Seq(Bucket)
         /\ \A w \in Nat : w + Baseline >= t =>
              ClosedTotal(Prune(buckets, t), w) = ClosedTotal(buckets, w)
<1> DEFINE kept == {i \in 1..Len(buckets) : buckets[i].start + Baseline >= t}
           p == Prune(buckets, t)
<1>1. DOMAIN buckets = 1..Len(buckets) /\ Len(buckets) \in Nat
  OBVIOUS
<1>2. CASE kept = {}
  <2>1. p = <<>> /\ p \in Seq(Bucket)
    BY <1>2 DEF Prune
  <2>2. ASSUME NEW w \in Nat, w + Baseline >= t
        PROVE  ClosedTotal(p, w) = ClosedTotal(buckets, w)
    <3>1. Having(buckets, w) = {} /\ Having(p, w) = {}
      BY <1>1, <1>2, <2>1, <2>2 DEF Having
    <3> HIDE DEF p
    <3> QED
      BY <2>1, <3>1, ClosedTotalIsSum, SumEmpty
  <2> QED
    BY <2>1, <2>2
<1>3. CASE kept # {}
  <2>1. PICK k \in kept : \A i \in kept : k <= i
    <3>1. kept \subseteq Nat
      OBVIOUS
    <3> HIDE DEF kept
    <3> QED
      BY <1>3, <3>1, SmallestExists
  <2>2. Min(kept) = k
    <3>1. \A i \in kept : i \in Nat
      OBVIOUS
    <3> HIDE DEF kept
    <3> QED
      BY <2>1, <3>1 DEF Min
  <2>3. k \in 1..Len(buckets)
    OBVIOUS
  <2> DEFINE n == Len(buckets) - k + 1
  <2>4. p = SubSeq(buckets, k, Len(buckets))
    BY <1>3, <2>2 DEF Prune
  <2>5. /\ p \in Seq(Bucket) /\ DOMAIN p = 1..n
        /\ \A i \in 1..n : p[i] = buckets[i + (k - 1)]
    <3> HIDE DEF p
    <3> QED
      BY <1>1, <2>3, <2>4
  <2>6. ASSUME NEW w \in Nat, w + Baseline >= t
        PROVE  ClosedTotal(p, w) = ClosedTotal(buckets, w)
    <3> DEFINE A == Having(p, w)
               e == BucketSums(p)
               f == BucketSums(buckets)
    <3>1. \A i \in Having(buckets, w) : i \in 1..Len(buckets) /\ k <= i
      <4>1. Having(buckets, w) \subseteq kept
        BY <1>1, <2>6 DEF Having
      <4> QED
        BY <1>1, <2>1, <4>1
    <3> HIDE DEF p, kept
    <3>2. /\ ClosedTotal(p, w) = SumOver(e, A) /\ IsFiniteSet(A)
          /\ \A i \in DOMAIN p : e[i] = p[i].sum /\ e[i] \in Nat
      BY <2>5, ClosedTotalIsSum
    <3>3. /\ ClosedTotal(buckets, w) = SumOver(f, Having(buckets, w))
          /\ \A i \in DOMAIN buckets : f[i] = buckets[i].sum
      BY ClosedTotalIsSum
    <3>4. A \subseteq 1..n /\ \A i \in 1..n : i \in A <=> buckets[i + (k - 1)].start = w
      BY <2>5 DEF Having
    <3>5. \A i \in 1..n : i + (k - 1) \in 1..Len(buckets)
      BY <1>1, <2>3
    <3> HIDE DEF A, e, f, n
    <3>6. \A i \in A : e[i] \in Int /\ f[i + (k - 1)] = e[i]
      BY <1>1, <2>5, <3>2, <3>3, <3>4, <3>5
    <3>7. {i + (k - 1) : i \in A} = Having(buckets, w)
      <4>1. ASSUME NEW i \in A PROVE i + (k - 1) \in Having(buckets, w)
        BY <1>1, <3>4, <3>5 DEF Having
      <4>2. ASSUME NEW j \in Having(buckets, w) PROVE \E i \in A : j = i + (k - 1)
        <5>1. j \in k..Len(buckets) /\ buckets[j].start = w
          BY <1>1, <3>1 DEF Having
        <5>2. j - (k - 1) \in 1..n /\ j = (j - (k - 1)) + (k - 1)
          BY <1>1, <2>3, <5>1 DEF n
        <5> QED
          BY <3>4, <5>1, <5>2
      <4> QED
        BY <4>1, <4>2
    <3>8. A \in SUBSET Int /\ k - 1 \in Int
      BY <2>3, <3>4
    <3>9. SumOver(f, {i + (k - 1) : i \in A}) = SumOver(e, A)
      BY <3>2, <3>6, <3>8, SumShift
    <3> QED
      BY <3>2, <3>3, <3>7, <3>9
  <2> QED
    BY <2>5, <2>6
<1> QED
  BY <1>2, <1>3

-----------------------------------------------------------------------------
(* The reconnect loop.                                                        *)

LEMMA YieldedSound ==
  ASSUME NEW stream, NEW failed, NEW ended, NEW t \in Nat,
         StreamSound(stream, failed, ended, t), stream.link = "open"
  PROVE  StreamSound(Yielded(stream), 0, ended, t) /\ ended = Never
<1>1. /\ Yielded(stream) \in Stream /\ Yielded(stream).attempt = 0
      /\ Yielded(stream).link = "open"
  BY DEF StreamSound, Stream, Yielded
<1> QED
  BY <1>1, EdgeSettings DEF StreamSound

LEMMA FailedSound ==
  ASSUME NEW stream, NEW failed, NEW ended, NEW t \in Nat,
         StreamSound(stream, failed, ended, t), stream.link = "open"
  PROVE  /\ StreamSound(Failed(stream), failed + 1,
                        IF Failed(stream).link = "exhausted" THEN t ELSE ended, t)
         /\ failed + 1 \in Nat /\ ended = Never
<1>1. /\ stream.attempt \in Nat /\ failed = stream.attempt /\ ended = Never
      /\ stream.attempt <= MaxReconnects /\ MaxReconnects \in Nat
  BY EdgeSettings DEF StreamSound, Stream
<1>2. /\ Failed(stream).attempt = stream.attempt + 1
      /\ Failed(stream).link = IF stream.attempt + 1 > MaxReconnects
                                 THEN "exhausted" ELSE "backoff"
      /\ Failed(stream) \in Stream
  BY <1>1 DEF Failed, Stream
<1>3. CASE stream.attempt + 1 > MaxReconnects
  <2>1. /\ Failed(stream).link = "exhausted" /\ t \in 0..t
        /\ Failed(stream).attempt = MaxReconnects + 1
    BY <1>1, <1>2, <1>3
  <2> QED
    BY <1>1, <1>2, <2>1 DEF StreamSound
<1>4. CASE ~ (stream.attempt + 1 > MaxReconnects)
  <2>1. /\ Failed(stream).link # "exhausted"
        /\ Failed(stream).attempt <= MaxReconnects
    BY <1>1, <1>2, <1>4
  <2> QED
    BY <1>1, <1>2, <2>1 DEF StreamSound
<1> QED
  BY <1>3, <1>4

LEMMA ReopenedSound ==
  ASSUME NEW stream, NEW failed, NEW ended, NEW t \in Nat,
         StreamSound(stream, failed, ended, t), stream.link = "backoff"
  PROVE  StreamSound(Reopened(stream), failed, ended, t)
<1>1. /\ Reopened(stream) \in Stream /\ Reopened(stream).attempt = stream.attempt
      /\ Reopened(stream).link = "open"
  BY DEF StreamSound, Stream, Reopened
<1> QED
  BY <1>1 DEF StreamSound

LEMMA StartedSound ==
  ASSUME NEW feed, NEW enabled
  PROVE  StreamSound(Collector(feed, enabled), 0, Never, 0)
<1>1. Opened \in Stream /\ Opened.link = "open" /\ Opened.attempt = 0
  BY DEF Opened, Stream
<1>2. Disabled \in Stream /\ Disabled.link = "off" /\ Disabled.attempt = 0
  BY DEF Disabled, Stream
<1>3. StreamSound(Opened, 0, Never, 0) /\ StreamSound(Disabled, 0, Never, 0)
  BY <1>1, <1>2, EdgeSettings DEF StreamSound
<1> QED
  BY <1>3 DEF Collector

LEMMA InitialOutage == EdgeInit => OutageInv
<1> SUFFICES ASSUME EdgeInit PROVE OutageInv
  OBVIOUS
<1>1. /\ now = 0 /\ skew \in Nat /\ tickerWire = <<>> /\ lastMessage = Never /\ latest = Never
      /\ failures = [f \in Feeds |-> 0] /\ endedAt = [f \in Feeds |-> Never]
  BY EdgeSettings DEF EdgeInit
<1>2. "liq" \in Feeds /\ "ticker" \in Feeds
  BY DEF Feeds
<1>3. /\ failures["liq"] = 0 /\ failures["ticker"] = 0
      /\ endedAt["liq"] = Never /\ endedAt["ticker"] = Never
      /\ failures \in [Feeds -> Nat] /\ endedAt \in [Feeds -> Moment]
  BY <1>1, <1>2 DEF Moment
<1>4. StreamSound(liq, 0, Never, 0) /\ StreamSound(ticker, 0, Never, 0)
  BY StartedSound DEF EdgeInit
<1>5. NoYounger(Never, Never, 0, 0) /\ NoYounger(Never, Never, 0, skew)
  BY DEF NoYounger
<1>6. <<>> \in Seq(Nat) /\ DOMAIN <<>> = {} /\ Never \in Moment
  BY DEF Moment
<1> QED
  BY <1>1, <1>3, <1>4, <1>5, <1>6 DEF OutageInv

(* An item, a failure or a reconnect of one feed, and what it leaves.         *)
LEMMA OutageStep == OutageInv /\ [EdgeNext]_edgeVars => OutageInv'
<1> SUFFICES ASSUME OutageInv, [EdgeNext]_edgeVars PROVE OutageInv'
  OBVIOUS
<1> USE DEF OutageInv
<1>0. "liq" \in Feeds /\ "ticker" \in Feeds /\ "liq" # "ticker"
  BY DEF Feeds
<1>1. CASE Pass
  <2>1. /\ now' = now + 1 /\ UNCHANGED <<skew, liq, lastMessage, ticker, tickerWire, latest,
                                         failures, endedAt>>
    BY <1>1 DEF Pass, liqVars, tickerVars, outageVars
  <2>2. ASSUME NEW stream, NEW failed, NEW ended, StreamSound(stream, failed, ended, now)
        PROVE  StreamSound(stream, failed, ended, now + 1)
    BY <2>2 DEF StreamSound
  <2>3. NoYounger(lastMessage, endedAt["liq"], now + 1, 0)
    BY EdgeSettings DEF NoYounger, Moment
  <2>4. NoYounger(latest, endedAt["ticker"], now + 1, skew)
    BY EdgeSettings DEF NoYounger, Moment
  <2>5. \A i \in DOMAIN tickerWire : tickerWire[i] <= now + 1 + skew
    <3>1. \A i \in DOMAIN tickerWire : tickerWire[i] \in Nat /\ tickerWire[i] <= now + skew
      OBVIOUS
    <3> QED
      BY <3>1
  <2> QED
    BY <2>1, <2>2, <2>3, <2>4, <2>5
<1>2. CASE LiqMessage
  <2>1. /\ UNCHANGED <<now, skew, ticker, tickerWire, latest, endedAt>>
        /\ lastMessage' = now /\ liq' = Yielded(liq) /\ liq.link = "open"
        /\ failures' = [failures EXCEPT !["liq"] = 0]
    BY <1>2 DEF LiqMessage, tickerVars
  <2>2. StreamSound(Yielded(liq), 0, endedAt["liq"], now) /\ endedAt["liq"] = Never
    BY <2>1, YieldedSound
  <2>3. /\ failures' \in [Feeds -> Nat] /\ failures'["liq"] = 0
        /\ failures'["ticker"] = failures["ticker"]
    BY <1>0, <2>1
  <2>4. NoYounger(now, endedAt["liq"], now, 0) /\ now \in Moment
    BY <2>2 DEF NoYounger, Moment
  <2> QED
    BY <2>1, <2>2, <2>3, <2>4
<1>3. CASE TickerMessage
  <2>1. /\ UNCHANGED <<now, skew, liq, lastMessage, endedAt>>
        /\ latest' = Head(tickerWire) /\ tickerWire' = Tail(tickerWire)
        /\ tickerWire # <<>> /\ ticker' = Yielded(ticker) /\ ticker.link = "open"
        /\ failures' = [failures EXCEPT !["ticker"] = 0]
    BY <1>3 DEF TickerMessage, liqVars
  <2>2. StreamSound(Yielded(ticker), 0, endedAt["ticker"], now) /\ endedAt["ticker"] = Never
    BY <2>1, YieldedSound
  <2>3. /\ failures' \in [Feeds -> Nat] /\ failures'["ticker"] = 0
        /\ failures'["liq"] = failures["liq"]
    BY <1>0, <2>1
  <2>4. /\ Tail(tickerWire) \in Seq(Nat)
        /\ Head(tickerWire) \in Nat /\ Head(tickerWire) <= now + skew
        /\ \A i \in DOMAIN Tail(tickerWire) : Tail(tickerWire)[i] <= now + skew
    BY <2>1
  <2>5. NoYounger(Head(tickerWire), endedAt["ticker"], now, skew) /\ Head(tickerWire) \in Moment
    BY <2>2, <2>4 DEF NoYounger, Moment
  <2> QED
    BY <2>1, <2>2, <2>3, <2>4, <2>5
<1>4. CASE LiqFails
  <2> DEFINE ended == IF Failed(liq).link = "exhausted" THEN now ELSE endedAt["liq"]
  <2>1. /\ UNCHANGED <<now, skew, ticker, tickerWire, latest, lastMessage>>
        /\ liq' = Failed(liq) /\ liq.link = "open"
        /\ failures' = [failures EXCEPT !["liq"] = @ + 1]
        /\ endedAt' = IF Failed(liq).link = "exhausted" THEN [endedAt EXCEPT !["liq"] = now]
                                                        ELSE endedAt
    BY <1>4 DEF LiqFails, Outage, tickerVars
  <2>2. /\ StreamSound(Failed(liq), failures["liq"] + 1, ended, now)
        /\ failures["liq"] + 1 \in Nat /\ endedAt["liq"] = Never
    BY <2>1, FailedSound
  <2>3. /\ failures' \in [Feeds -> Nat] /\ failures'["liq"] = failures["liq"] + 1
        /\ failures'["ticker"] = failures["ticker"]
    BY <1>0, <2>1, <2>2
  <2>4. /\ endedAt' \in [Feeds -> Moment] /\ endedAt'["liq"] = ended
        /\ endedAt'["ticker"] = endedAt["ticker"]
    BY <1>0, <2>1 DEF Moment
  <2>5. NoYounger(lastMessage, ended, now, 0)
    BY <2>2 DEF NoYounger
  <2> HIDE DEF ended
  <2> QED
    BY <2>1, <2>2, <2>3, <2>4, <2>5
<1>5. CASE TickerFails
  <2> DEFINE ended == IF Failed(ticker).link = "exhausted" THEN now ELSE endedAt["ticker"]
  <2>1. /\ UNCHANGED <<now, skew, liq, lastMessage, latest>>
        /\ tickerWire' = <<>>
        /\ ticker' = Failed(ticker) /\ ticker.link = "open"
        /\ failures' = [failures EXCEPT !["ticker"] = @ + 1]
        /\ endedAt' = IF Failed(ticker).link = "exhausted"
                        THEN [endedAt EXCEPT !["ticker"] = now] ELSE endedAt
    BY <1>5 DEF TickerFails, Outage, liqVars
  <2>2. /\ StreamSound(Failed(ticker), failures["ticker"] + 1, ended, now)
        /\ failures["ticker"] + 1 \in Nat /\ endedAt["ticker"] = Never
    BY <2>1, FailedSound
  <2>3. /\ failures' \in [Feeds -> Nat] /\ failures'["ticker"] = failures["ticker"] + 1
        /\ failures'["liq"] = failures["liq"]
    BY <1>0, <2>1, <2>2
  <2>4. /\ endedAt' \in [Feeds -> Moment] /\ endedAt'["ticker"] = ended
        /\ endedAt'["liq"] = endedAt["liq"]
    BY <1>0, <2>1 DEF Moment
  <2>5. NoYounger(latest, ended, now, skew)
    BY <2>2 DEF NoYounger
  <2>6. <<>> \in Seq(Nat) /\ DOMAIN <<>> = {}
    OBVIOUS
  <2> HIDE DEF ended
  <2> QED
    BY <2>1, <2>2, <2>3, <2>4, <2>5, <2>6
<1>6. CASE LiqReopens
  <2>1. /\ UNCHANGED <<now, skew, lastMessage, ticker, tickerWire, latest, failures, endedAt>>
        /\ liq' = Reopened(liq) /\ liq.link = "backoff"
    BY <1>6 DEF LiqReopens, tickerVars, outageVars
  <2>2. StreamSound(Reopened(liq), failures["liq"], endedAt["liq"], now)
    BY <2>1, ReopenedSound
  <2> QED
    BY <2>1, <2>2
<1>7. CASE TickerReopens
  <2>1. /\ UNCHANGED <<now, skew, liq, lastMessage, tickerWire, latest, failures, endedAt>>
        /\ ticker' = Reopened(ticker) /\ ticker.link = "backoff"
    BY <1>7 DEF TickerReopens, liqVars, outageVars
  <2>2. StreamSound(Reopened(ticker), failures["ticker"], endedAt["ticker"], now)
    BY <2>1, ReopenedSound
  <2> QED
    BY <2>1, <2>2
<1>8. CASE BookChange
  <2>1. /\ UNCHANGED <<now, skew, liq, lastMessage, ticker, latest, failures, endedAt>>
        /\ tickerWire' = Append(tickerWire, now + skew)
    BY <1>8 DEF BookChange, TickerTime, liqVars, outageVars
  <2>2. /\ tickerWire' \in Seq(Nat)
        /\ \A i \in DOMAIN tickerWire' : tickerWire'[i] <= now + skew
    BY <2>1
  <2> QED
    BY <2>1, <2>2
<1>9. ASSUME UNCHANGED <<now, skew, liq, lastMessage, ticker, tickerWire, latest, failures,
                         endedAt>>
      PROVE  OutageInv'
  BY <1>9
<1>10. CASE EdgeFeatures \/ (\E side \in Sides : ForceOrder(side)) \/ UNCHANGED edgeVars
  BY <1>9, <1>10
  DEF EdgeFeatures, ForceOrder, edgeVars, liqVars, tickerVars, outageVars
<1> QED
  BY <1>1, <1>2, <1>3, <1>4, <1>5, <1>6, <1>7, <1>8, <1>10 DEF EdgeNext

(* Each loop's budget and each value's age are those of the model.            *)
LEMMA OutageInvariance == EdgeSpec => []OutageInv
  BY InitialOutage, OutageStep, PTL DEF EdgeSpec

(* A feed gives up only when a whole budget of reconnects has failed since    *)
(* its last item (stream_with_reconnect), whatever the budget.                *)
THEOREM FeedsSpendTheirBudget == EdgeSpec => []BudgetPerOutage
<1>1. OutageInv => BudgetPerOutage
  BY DEF OutageInv, BudgetPerOutage, StreamSound, Feeds
<1> QED
  BY <1>1, OutageInvariance, PTL

(* Where an age limit is configured, a feed that gave up is missing once its  *)
(* last value is older than that limit (snapshot, latest).                    *)
THEOREM DeadFeedsGoMissing == EdgeSpec => []DeadFeedAgesOut
<1>1. ASSUME OutageInv PROVE DeadFeedAgesOut
  <2>1. /\ now \in Nat /\ skew \in Nat /\ endedAt["liq"] \in Moment
        /\ endedAt["ticker"] \in Moment
    BY <1>1 DEF OutageInv, Feeds
  <2>2. ASSUME endedAt["ticker"] # Never, now > endedAt["ticker"] + TickerMaxAge + skew,
               latest # Never
        PROVE  now > latest + TickerMaxAge
    <3>1. latest \in Nat /\ endedAt["ticker"] \in Nat /\ latest <= endedAt["ticker"] + skew
      BY <1>1, <2>1, <2>2 DEF OutageInv, NoYounger, Moment
    <3> QED
      BY <2>1, <2>2, <3>1, EdgeSettings
  <2>3. ASSUME endedAt["liq"] # Never, now > endedAt["liq"] + LiqMaxAge, lastMessage # Never
        PROVE  now > lastMessage + LiqMaxAge
    <3>1. lastMessage \in Nat /\ endedAt["liq"] \in Nat /\ lastMessage <= endedAt["liq"] + 0
      BY <1>1, <2>1, <2>3 DEF OutageInv, NoYounger, Moment
    <3> QED
      BY <2>1, <2>3, <3>1, EdgeSettings
  <2> QED
    BY <1>1, <2>2, <2>3 DEF DeadFeedAgesOut, LiqMissingAfter, Latest, LiqMissing
<1>2. OutageInv => DeadFeedAgesOut
  BY <1>1
<1> QED
  BY <1>2, OutageInvariance, PTL

-----------------------------------------------------------------------------
(* What an event and a read do to one side.                                   *)

LEMMA ClosedSide ==
  ASSUME NEW side \in Side, side.start # Never, NEW w
  PROVE  /\ Closed(side) \in Seq(Bucket)
         /\ ClosedTotal(Closed(side), w)
              = ClosedTotal(side.buckets, w) + (IF side.start = w THEN side.sum ELSE 0)
<1> DEFINE x == [start |-> side.start, sum |-> side.sum]
<1>1. side.buckets \in Seq(Bucket) /\ side.start \in Nat /\ side.sum \in Nat
  BY WindowsAreNats DEF Side
<1>2. x \in Bucket /\ x.start = side.start /\ x.sum = side.sum
  BY <1>1 DEF Bucket
<1>3. Closed(side) = Append(side.buckets, x)
  BY DEF Closed
<1> HIDE DEF x
<1>4. /\ Append(side.buckets, x) \in Seq(Bucket)
      /\ ClosedTotal(Append(side.buckets, x), w)
           = ClosedTotal(side.buckets, w) + (IF x.start = w THEN x.sum ELSE 0)
  BY <1>1, <1>2, ClosingAdds
<1> QED
  BY <1>2, <1>3, <1>4

(* ingest adds one event to the window of its time, and to no other.          *)
LEMMA IngestedSide ==
  ASSUME NEW side \in Side, NEW t \in Times,
         side.sum = Notional * side.count, side.start = Never => side.count = 0
  PROVE  LET r == Ingested(side, t) IN
         /\ r \in Side /\ r.start = Align(t) /\ r.sum = Notional * r.count
         /\ r.count = IF side.start \in {Never, Align(t)} THEN side.count + 1 ELSE 1
         /\ \A w \in Nat : w + Baseline >= t =>
              TotalOf(r, w) = TotalOf(side, w) + (IF w = Align(t) THEN Notional ELSE 0)
<1> DEFINE r == Ingested(side, t)
           opens == side.start # Never /\ side.start # Align(t)
           past == IF opens THEN Closed(side) ELSE side.buckets
           sum == IF opens THEN 0 ELSE side.sum
           count == IF opens THEN 0 ELSE side.count
<1>1. t \in Nat /\ Align(t) \in Windows /\ Align(t) \in Nat
  BY EdgeSettings, WindowsAreNats DEF Times, Windows
<1>2. /\ side.buckets \in Seq(Bucket) /\ side.sum \in Nat /\ side.count \in Nat
      /\ side.start \in Nat \cup {Never} /\ Never \notin Nat /\ Notional \in Nat
  BY EdgeSettings, WindowsAreNats DEF Side
<1>3. past \in Seq(Bucket)
  BY <1>2, ClosedSide
<1>4. /\ r.buckets = Prune(past, t) /\ r.start = Align(t)
      /\ r.sum = sum + Notional /\ r.count = count + 1
      /\ r = [buckets |-> r.buckets, start |-> r.start, sum |-> r.sum, count |-> r.count]
  BY DEF Ingested
<1>5. sum \in Nat /\ count \in Nat /\ sum = Notional * count
  BY <1>2
<1>6. r.sum = Notional * r.count /\ r.sum \in Nat /\ r.count \in Nat
  <2> HIDE DEF r, sum, count
  <2>1. Notional * (count + 1) = Notional * count + Notional /\ sum + Notional \in Nat
    BY <1>2, <1>5
  <2>2. r.sum = Notional * count + Notional /\ r.count = count + 1
    BY <1>4, <1>5
  <2> QED
    BY <1>4, <1>5, <2>1, <2>2
<1>7. r.count = IF side.start \in {Never, Align(t)} THEN side.count + 1 ELSE 1
  <2> HIDE DEF r
  <2> QED
    BY <1>2, <1>4
<1>8. r \in Side
  <2>1. Prune(past, t) \in Seq(Bucket)
    BY <1>1, <1>3, PruningKeeps
  <2> HIDE DEF r, past
  <2> QED
    BY <1>1, <1>4, <1>6, <2>1 DEF Side
<1>9. ASSUME NEW w \in Nat, w + Baseline >= t
      PROVE  TotalOf(r, w) = TotalOf(side, w) + (IF w = Align(t) THEN Notional ELSE 0)
  <2>1. ClosedTotal(r.buckets, w) = ClosedTotal(past, w)
    <3> HIDE DEF past, r
    <3> QED
      BY <1>1, <1>3, <1>4, <1>9, PruningKeeps
  <2>2. ClosedTotal(side.buckets, w) \in Nat
    BY <1>2, ClosedTotalIsSum
  <2>3. TotalOf(r, w) = ClosedTotal(past, w) + (IF Align(t) = w THEN sum + Notional ELSE 0)
    <3> HIDE DEF past, r, sum
    <3> QED
      BY <1>4, <2>1 DEF TotalOf
  <2>4. CASE opens
    <3>1. ClosedTotal(past, w)
            = ClosedTotal(side.buckets, w) + (IF side.start = w THEN side.sum ELSE 0)
      BY <2>4, ClosedSide
    <3> HIDE DEF past, r
    <3> QED
      BY <1>1, <1>2, <2>2, <2>3, <2>4, <3>1 DEF TotalOf
  <2>5. CASE ~ opens
    <3>1. ClosedTotal(past, w) = ClosedTotal(side.buckets, w)
      BY <2>5
    <3>2. side.start # Align(t) => side.sum = 0
      BY <1>2, <2>5
    <3>3. sum = side.sum
      BY <2>5
    <3> HIDE DEF past, r, sum
    <3>4. CASE w = Align(t)
      <4>1. side.start = w \/ side.sum = 0
        BY <3>2, <3>4
      <4>2. TotalOf(side, w) = ClosedTotal(side.buckets, w) + side.sum
        BY <2>2, <4>1 DEF TotalOf
      <4> QED
        BY <1>2, <2>2, <2>3, <3>1, <3>3, <3>4, <4>2
    <3>5. CASE w # Align(t)
      <4>1. TotalOf(side, w) = ClosedTotal(side.buckets, w)
        BY <1>2, <2>2, <2>5, <3>5 DEF TotalOf
      <4> QED
        BY <2>2, <2>3, <3>1, <3>5, <4>1
    <3> QED
      BY <3>4, <3>5
  <2> QED
    BY <2>4, <2>5
<1> HIDE DEF r
<1> QED
  BY <1>4, <1>6, <1>7, <1>8, <1>9 DEF r

(* A read moves an aged bucket to the history and changes no total.           *)
LEMMA CurrentSide ==
  ASSUME NEW side \in Side, now \in Nat, side.sum = Notional * side.count
  PROVE  LET r == Current(side) IN
         /\ r \in Side /\ r.sum = Notional * r.count
         /\ Aged(side) => r.start = Never /\ r.count = 0 /\ r.sum = 0
         /\ ~ Aged(side) => r = side
         /\ \A w \in Nat : w + Baseline >= now => TotalOf(r, w) = TotalOf(side, w)
<1> DEFINE r == Current(side)
           past == IF side.sum > 0 THEN Prune(Closed(side), now) ELSE side.buckets
<1>1. CASE ~ Aged(side)
  BY <1>1 DEF Current
<1>2. CASE Aged(side)
  <2>1. /\ side.buckets \in Seq(Bucket) /\ side.sum \in Nat /\ Never \notin Nat
        /\ side.start # Never /\ Notional \in Nat
    BY <1>2, EdgeSettings DEF Side, Aged
  <2>2. /\ r.buckets = past /\ r.start = Never /\ r.sum = 0 /\ r.count = 0
        /\ r = [buckets |-> past, start |-> Never, sum |-> 0, count |-> 0]
    BY <1>2 DEF Current, EmptySide
  <2>3. Closed(side) \in Seq(Bucket)
    BY <2>1, ClosedSide
  <2>4. past \in Seq(Bucket)
    BY <2>1, <2>3, PruningKeeps
  <2>5. r \in Side
    <3> HIDE DEF r, past
    <3> QED
      BY <2>2, <2>4 DEF Side
  <2>6. ASSUME NEW w \in Nat, w + Baseline >= now PROVE TotalOf(r, w) = TotalOf(side, w)
    <3>1. TotalOf(r, w) = ClosedTotal(past, w)
      <4>1. ClosedTotal(past, w) \in Nat
        <5> HIDE DEF past
        <5> QED
          BY <2>4, ClosedTotalIsSum
      <4> HIDE DEF r, past
      <4> QED
        BY <2>1, <2>2, <4>1 DEF TotalOf
    <3>2. CASE side.sum > 0
      <4>1. ClosedTotal(past, w) = ClosedTotal(Closed(side), w)
        BY <2>3, <2>6, <3>2, PruningKeeps
      <4>2. ClosedTotal(Closed(side), w) = TotalOf(side, w)
        BY <2>1, ClosedSide DEF TotalOf
      <4> QED
        BY <3>1, <4>1, <4>2
    <3>3. CASE side.sum = 0
      <4>1. ClosedTotal(side.buckets, w) \in Nat
        BY <2>1, ClosedTotalIsSum
      <4>2. past = side.buckets
        BY <3>3
      <4> HIDE DEF r, past
      <4> QED
        BY <3>1, <3>3, <4>1, <4>2 DEF TotalOf
    <3> QED
      BY <2>1, <3>2, <3>3
  <2>7. 0 = Notional * 0
    BY <2>1
  <2> HIDE DEF r
  <2> QED
    BY <1>2, <2>2, <2>5, <2>6, <2>7 DEF r
<1> QED
  BY <1>1, <1>2

-----------------------------------------------------------------------------
(* The steps of the liquidation feed.                                         *)

LEMMA InitialWindows == EdgeInit => WindowInv
<1> SUFFICES ASSUME EdgeInit PROVE WindowInv
  OBVIOUS
<1>1. /\ now = 0 /\ skew \in 0..MaxSkew /\ liqWire = [queue |-> <<>>, sent |-> 0]
      /\ sides = [s \in Sides |-> EmptySide]
      /\ counted = [s \in Sides |-> [w \in Windows |-> 0]]
      /\ lastEvent = [s \in Sides |-> Never]
  BY DEF EdgeInit
<1>2. /\ EmptySide \in Side /\ EmptySide.start = Never /\ EmptySide.sum = 0
      /\ EmptySide.count = 0 /\ EmptySide.buckets = <<>> /\ <<>> \in Seq(Bucket)
  BY DEF EmptySide, Side
<1>3. WindowType
  <2>1. 0 \in 0..MaxClock /\ <<>> \in Seq(Event)
    BY EdgeSettings
  <2> QED
    BY <1>1, <1>2, <2>1 DEF WindowType, Moment
<1>4. WireOrdered /\ WireAhead
  BY <1>1 DEF WireOrdered, WireAhead
<1>5. ASSUME NEW s \in Sides PROVE SideSound(s) /\ SideWhole(s) /\ NoneLater(s)
  <2>1. /\ sides[s].sum = 0 /\ sides[s].count = 0 /\ sides[s].start = Never
        /\ lastEvent[s] = Never /\ \A w \in Windows : counted[s][w] = 0
    BY <1>1, <1>2
  <2>2. 0 = Notional * 0
    BY EdgeSettings
  <2> QED
    BY <2>1, <2>2 DEF SideSound, SideWhole, NoneLater
<1>6. ASSUME NEW s \in Sides, NEW w \in Windows
      PROVE  TotalOf(sides[s], w) = Notional * counted[s][w]
  <2>1. sides[s] = EmptySide /\ counted[s][w] = 0
    BY <1>1
  <2>2. ClosedTotal(<<>>, w) = 0
    <3>1. Having(<<>>, w) = {}
      BY DEF Having
    <3> QED
      BY <1>2, <3>1, ClosedTotalIsSum, SumEmpty
  <2>3. TotalOf(EmptySide, w) = 0
    BY <1>2, <2>2 DEF TotalOf
  <2> QED
    BY <2>1, <2>3, EdgeSettings
<1> QED
  BY <1>3, <1>4, <1>5, <1>6 DEF WindowInv, BaselineExact

(* The local clock: windows only get older.                                   *)
LEMMA ClockKeepsWindows == WindowInv /\ Pass => WindowInv'
<1> SUFFICES ASSUME WindowInv, Pass PROVE WindowInv'
  OBVIOUS
<1>1. /\ now' = now + 1 /\ now < MaxClock
      /\ UNCHANGED <<skew, liqWire, sides, counted, lastEvent>>
  BY DEF Pass, liqVars
<1>2. WindowType
  BY DEF WindowInv
<1>3. now \in Nat /\ skew \in Nat
  BY <1>2, EdgeSettings DEF WindowType
<1>4. WindowType'
  BY <1>1, <1>2, EdgeSettings DEF WindowType
<1>5. WireOrdered'
  BY <1>1 DEF WindowInv, WireOrdered
<1>6. WireAhead'
  <2>1. \A i \in DOMAIN liqWire.queue : liqWire.queue[i].at \in Nat
    <3>1. \A i \in DOMAIN liqWire.queue : liqWire.queue[i] \in Event
      BY <1>2 DEF WindowType
    <3> QED
      BY <3>1 DEF Event
  <2> QED
    BY <1>1, <1>3, <2>1 DEF WindowInv, WireAhead
<1>7. ASSUME NEW s \in Sides PROVE SideSound(s)' /\ SideWhole(s)' /\ NoneLater(s)'
  <2>1. lastEvent[s] \in Moment /\ SideSound(s) /\ SideWhole(s) /\ NoneLater(s)
    BY <1>2 DEF WindowInv, WindowType
  <2>2. lastEvent[s] # Never => lastEvent[s] \in Nat /\ Align(lastEvent[s]) \in Nat
    BY <2>1, WindowStart DEF Moment
  <2>3. SideSound(s)'
    BY <1>1, <1>3, <2>1, <2>2 DEF SideSound
  <2>4. SideWhole(s)'
    BY <1>1, <1>3, <2>1, <2>2, EdgeSettings DEF SideWhole
  <2>5. NoneLater(s)'
    BY <1>1, <2>1 DEF NoneLater
  <2> QED
    BY <2>3, <2>4, <2>5
<1>8. BaselineExact'
  <2> SUFFICES ASSUME NEW s \in Sides, NEW w \in Windows, w + Baseline >= now + 1 + skew
               PROVE  TotalOf(sides[s], w) = Notional * counted[s][w]
    BY <1>1 DEF BaselineExact
  <2>1. w + Baseline >= now + skew
    BY <1>3, WindowsAreNats, EdgeSettings
  <2> QED
    BY <2>1 DEF WindowInv, BaselineExact
<1> QED
  BY <1>4, <1>5, <1>6, <1>7, <1>8 DEF WindowInv

(* A step that leaves clock, sides and history alone.                         *)
LEMMA WireKeepsWindows ==
  ASSUME WindowInv, UNCHANGED <<now, skew, sides, counted, lastEvent>>,
         liqWire' \in [queue : Seq(Event), sent : Nat], WireOrdered', WireAhead'
  PROVE  WindowInv'
<1>1. WindowType'
  BY DEF WindowInv, WindowType
<1>2. \A s \in Sides : SideSound(s)' /\ SideWhole(s)' /\ NoneLater(s)'
  BY DEF WindowInv, SideSound, SideWhole, NoneLater
<1>3. BaselineExact'
  BY DEF WindowInv, BaselineExact
<1> QED
  BY <1>1, <1>2, <1>3 DEF WindowInv

LEMMA ForceOrderKeepsWindows ==
  ASSUME WindowInv, NEW side \in Sides, ForceOrder(side)
  PROVE  WindowInv'
<1> DEFINE q == liqWire.queue
           e == LiqEvent(side)
           n == Len(q) + 1
<1>1. /\ UNCHANGED <<now, skew, sides, counted, lastEvent>>
      /\ liqWire' = [queue |-> Append(q, e), sent |-> liqWire.sent + 1]
  BY DEF ForceOrder
<1>2. now \in Nat /\ skew \in Nat /\ q \in Seq(Event) /\ liqWire.sent \in Nat
  BY EdgeSettings DEF WindowInv, WindowType
<1>3. e \in Event /\ e.at = now + skew
  BY <1>2 DEF LiqEvent, Event
<1> HIDE DEF e
<1>4. /\ Append(q, e) \in Seq(Event) /\ DOMAIN Append(q, e) = 1..n /\ DOMAIN q = 1..(n - 1)
      /\ n \in Nat \ {0} /\ Append(q, e)[n] = e
      /\ \A i \in 1..(n - 1) : Append(q, e)[i] = q[i]
  BY <1>2, <1>3
<1>5. \A i \in 1..(n - 1) : q[i].at \in Nat /\ q[i].at <= now + skew
  <2>1. \A i \in 1..(n - 1) : q[i] \in Event
    BY <1>2, <1>4
  <2>2. \A i \in 1..(n - 1) : q[i].at \in Nat
    BY <2>1 DEF Event
  <2> QED
    BY <1>4, <2>2 DEF WindowInv, WireAhead
<1>6. liqWire'.queue = Append(q, e) /\ liqWire' \in [queue : Seq(Event), sent : Nat]
  BY <1>1, <1>2, <1>4
<1>7. \A i, j \in 1..(n - 1) : i <= j => q[i].at <= q[j].at
  BY <1>4 DEF WindowInv, WireOrdered
<1>8. \A s \in Sides : lastEvent[s] # Never => lastEvent[s] <= now + skew
  BY DEF WindowInv, SideSound
<1>9. \A i \in 1..(n - 1), s \in Sides : lastEvent[s] # Never => lastEvent[s] <= q[i].at
  BY <1>4 DEF WindowInv, WireAhead
<1> DEFINE p == Append(q, e)
<1>10. p[n] = e /\ \A i \in 1..(n - 1) : p[i] = q[i]
  BY <1>4
<1>11. \A i \in 1..n : i = n \/ i \in 1..(n - 1)
  BY <1>4
<1>12. liqWire'.queue = p /\ DOMAIN p = 1..n
  BY <1>4, <1>6
<1> HIDE DEF p, q, n
<1>13. WireOrdered'
  <2>1. ASSUME NEW i \in 1..n, NEW j \in 1..n, i <= j PROVE p[i].at <= p[j].at
    <3>1. CASE j = n
      BY <1>2, <1>3, <1>5, <1>10, <1>11, <3>1
    <3>2. CASE j \in 1..(n - 1)
      <4>1. i \in 1..(n - 1)
        BY <1>4, <2>1, <3>2
      <4> QED
        BY <1>7, <1>10, <2>1, <3>2, <4>1
    <3> QED
      BY <1>11, <3>1, <3>2
  <2> QED
    BY <1>12, <2>1 DEF WireOrdered
<1>14. WireAhead'
  <2>1. ASSUME NEW i \in 1..n
        PROVE  /\ p[i].at <= now + skew
               /\ \A s \in Sides : lastEvent[s] # Never => lastEvent[s] <= p[i].at
    <3>1. CASE i = n
      BY <1>2, <1>3, <1>8, <1>10, <3>1
    <3>2. CASE i \in 1..(n - 1)
      BY <1>5, <1>9, <1>10, <3>2
    <3> QED
      BY <1>11, <3>1, <3>2
  <2> QED
    BY <1>1, <1>12, <2>1 DEF WireAhead
<1> QED
  BY <1>1, <1>6, <1>13, <1>14, WireKeepsWindows

LEMMA FailureKeepsWindows == WindowInv /\ LiqFails => WindowInv'
<1> SUFFICES ASSUME WindowInv, LiqFails PROVE WindowInv'
  OBVIOUS
<1>1. /\ UNCHANGED <<now, skew, sides, counted, lastEvent>>
      /\ liqWire' = [liqWire EXCEPT !.queue = <<>>]
  BY DEF LiqFails
<1>2. liqWire \in [queue : Seq(Event), sent : Nat]
  BY DEF WindowInv, WindowType
<1>3. liqWire'.queue = <<>> /\ liqWire' \in [queue : Seq(Event), sent : Nat]
  <2>1. <<>> \in Seq(Event)
    OBVIOUS
  <2> QED
    BY <1>1, <1>2, <2>1
<1>4. WireOrdered' /\ WireAhead'
  BY <1>3 DEF WireOrdered, WireAhead
<1> QED
  BY <1>1, <1>3, <1>4, WireKeepsWindows

(* A read closes no bucket whose window still lasts.                          *)
LEMMA ReadKeepsWindows == WindowInv /\ EdgeFeatures => WindowInv'
<1> SUFFICES ASSUME WindowInv, EdgeFeatures PROVE WindowInv'
  OBVIOUS
<1>1. /\ UNCHANGED <<now, skew, liqWire, counted, lastEvent>>
      /\ sides' = [s \in Sides |-> Current(sides[s])]
  BY DEF EdgeFeatures
<1>2. WindowType
  BY DEF WindowInv
<1>3. now \in Nat /\ skew \in Nat
  BY <1>2, EdgeSettings DEF WindowType
<1>4. ASSUME NEW s \in Sides
      PROVE  /\ sides'[s] \in Side
             /\ SideSound(s)' /\ SideWhole(s)' /\ NoneLater(s)'
             /\ \A w \in Nat : w + Baseline >= now =>
                  TotalOf(sides'[s], w) = TotalOf(sides[s], w)
  <2> DEFINE old == sides[s]
             r == Current(old)
  <2>1. old \in Side /\ SideSound(s) /\ SideWhole(s) /\ NoneLater(s) /\ lastEvent[s] \in Moment
    BY <1>2 DEF WindowInv, WindowType
  <2>2. /\ r \in Side /\ r.sum = Notional * r.count
        /\ Aged(old) => r.start = Never /\ r.count = 0 /\ r.sum = 0
        /\ ~ Aged(old) => r = old
        /\ \A w \in Nat : w + Baseline >= now => TotalOf(r, w) = TotalOf(old, w)
    BY <1>3, <2>1, CurrentSide DEF SideSound
  <2>3. sides'[s] = r
    BY <1>1
  <2> HIDE DEF r
  <2>4. SideSound(s)'
    BY <1>1, <2>1, <2>2, <2>3 DEF SideSound
  <2>5. SideWhole(s)'
    <3>1. CASE Aged(old)
      <4>1. lastEvent[s] # Never /\ now >= Align(lastEvent[s]) + Window
        BY <2>1, <3>1 DEF Aged, SideSound
      <4>2. Align(lastEvent[s]) \in Nat
        BY <2>1, <4>1, WindowStart DEF Moment
      <4>3. ~ (now < Align(lastEvent[s]) + Window)
        BY <1>3, <4>1, <4>2, EdgeSettings
      <4> QED
        BY <1>1, <4>3 DEF SideWhole
    <3>2. CASE ~ Aged(old)
      BY <1>1, <2>1, <2>2, <2>3, <3>2 DEF SideWhole
    <3> QED
      BY <3>1, <3>2
  <2>6. NoneLater(s)'
    BY <1>1, <2>1 DEF NoneLater
  <2> QED
    BY <2>2, <2>3, <2>4, <2>5, <2>6
<1>5. WindowType'
  <2>1. sides' \in [Sides -> Side]
    BY <1>1, <1>4
  <2> QED
    BY <1>1, <1>2, <2>1 DEF WindowType
<1>6. WireOrdered' /\ WireAhead'
  BY <1>1 DEF WindowInv, WireOrdered, WireAhead
<1>7. BaselineExact'
  <2>1. ASSUME NEW s \in Sides, NEW w \in Windows, w + Baseline >= now + skew
        PROVE  TotalOf(sides'[s], w) = Notional * counted[s][w]
    <3>1. w \in Nat /\ w + Baseline >= now
      BY <1>3, <2>1, WindowsAreNats, EdgeSettings
    <3>2. TotalOf(sides[s], w) = Notional * counted[s][w]
      BY <2>1 DEF WindowInv, BaselineExact
    <3> QED
      BY <1>4, <3>1, <3>2
  <2> QED
    BY <1>1, <2>1 DEF BaselineExact
<1> QED
  BY <1>4, <1>5, <1>6, <1>7 DEF WindowInv

(* An event belongs to the last window or to a later one: it joins the bucket *)
(* in progress, or opens one in which nothing was counted before.             *)
LEMMA IngestKeepsSide ==
  ASSUME WindowInv, NEW s \in Sides, NEW t \in Times, t <= now + skew,
         lastEvent[s] # Never => lastEvent[s] <= t
  PROVE  LET r == Ingested(sides[s], t)
             n == counted[s][Align(t)] + 1
         IN  /\ r \in Side /\ r.start = Align(t) /\ r.sum = Notional * r.count
             /\ now < Align(t) + Window => r.count = n
             /\ \A w \in Windows : Align(t) < w => counted[s][w] = 0
             /\ \A w \in Windows : w + Baseline >= now + skew =>
                  TotalOf(r, w) = Notional * (IF w = Align(t) THEN n ELSE counted[s][w])
<1> DEFINE old == sides[s]
           r == Ingested(old, t)
           n == counted[s][Align(t)] + 1
           L == lastEvent[s]
<1>1. /\ old \in Side /\ SideSound(s) /\ SideWhole(s) /\ NoneLater(s)
      /\ L \in Moment /\ counted[s] \in [Windows -> Nat]
      /\ now \in Nat /\ skew \in Nat
  BY EdgeSettings DEF WindowInv, WindowType
<1>2. /\ t \in Nat /\ Align(t) \in Windows /\ Align(t) \in Nat
      /\ Never \notin Nat /\ Window \in Nat \ {0}
      /\ Notional \in Nat
  BY EdgeSettings, WindowsAreNats DEF Times, Windows
<1>3. /\ r \in Side /\ r.start = Align(t) /\ r.sum = Notional * r.count
      /\ r.count = IF old.start \in {Never, Align(t)} THEN old.count + 1 ELSE 1
      /\ \A w \in Nat : w + Baseline >= t =>
           TotalOf(r, w) = TotalOf(old, w) + (IF w = Align(t) THEN Notional ELSE 0)
  BY <1>1, IngestedSide DEF SideSound
<1> HIDE DEF r
<1>4. L # Never => L \in Nat /\ Align(L) \in Nat /\ Align(L) <= Align(t)
  BY <1>1, <1>2, WindowStart, WindowsApart DEF Moment
<1>5. old.count \in Nat
  BY <1>1 DEF Side
<1>6. ASSUME now < Align(t) + Window PROVE r.count = n
  <2>1. CASE L # Never /\ Align(L) = Align(t)
    BY <1>1, <1>3, <1>6, <2>1 DEF SideWhole
  <2>2. CASE L = Never \/ Align(L) # Align(t)
    <3>1. counted[s][Align(t)] = 0
      BY <1>1, <1>2, <1>4, <2>2 DEF NoneLater
    <3>2. old.start # Align(t)
      BY <1>1, <1>2, <2>2 DEF SideSound
    <3>3. old.start = Never => old.count = 0
      BY <1>1 DEF SideSound
    <3> QED
      BY <1>3, <1>5, <3>1, <3>2, <3>3
  <2> QED
    BY <2>1, <2>2
<1>7. ASSUME NEW w \in Windows, Align(t) < w PROVE counted[s][w] = 0
  <2>1. L # Never => Align(L) < w
    BY <1>2, <1>4, <1>7, WindowsAreNats
  <2> QED
    BY <1>1, <2>1 DEF NoneLater
<1>8. ASSUME NEW w \in Windows, w + Baseline >= now + skew
      PROVE  TotalOf(r, w) = Notional * (IF w = Align(t) THEN n ELSE counted[s][w])
  <2>1. w \in Nat /\ w + Baseline >= t
    BY <1>1, <1>2, <1>8, WindowsAreNats, EdgeSettings
  <2>2. TotalOf(old, w) = Notional * counted[s][w]
    BY <1>8 DEF WindowInv, BaselineExact
  <2>3. TotalOf(r, w) = Notional * counted[s][w] + (IF w = Align(t) THEN Notional ELSE 0)
    BY <1>3, <2>1, <2>2
  <2>4. counted[s][w] \in Nat
    BY <1>1
  <2>5. Notional * (counted[s][w] + 1) = Notional * counted[s][w] + Notional
    BY <1>2, <2>4
  <2>6. Notional * counted[s][w] \in Nat
    BY <1>2, <2>4
  <2> QED
    BY <2>3, <2>5, <2>6
<1> QED
  BY <1>3, <1>6, <1>7, <1>8 DEF r

LEMMA MessageKeepsWindows == WindowInv /\ LiqMessage => WindowInv'
<1> SUFFICES ASSUME WindowInv, LiqMessage PROVE WindowInv'
  OBVIOUS
<1> DEFINE q == liqWire.queue
           p == Tail(q)
           n == Len(q) - 1
           e == Head(q)
           t == e.at
           r == Ingested(sides[e.side], t)
           m == counted[e.side][Align(t)] + 1
<1>1. /\ UNCHANGED <<now, skew>> /\ q # <<>>
      /\ sides' = [sides EXCEPT ![e.side] = r]
      /\ counted' = [counted EXCEPT ![e.side][Align(t)] = m]
      /\ lastEvent' = [lastEvent EXCEPT ![e.side] = t]
      /\ liqWire' = [liqWire EXCEPT !.queue = p]
  BY DEF LiqMessage
<1>2. WindowType /\ now \in 0..MaxClock /\ skew \in 0..MaxSkew
  BY DEF WindowInv, WindowType
<1>3. /\ liqWire \in [queue : Seq(Event), sent : Nat] /\ q \in Seq(Event)
  BY <1>2 DEF WindowType
<1>4. /\ n \in Nat /\ e = q[1] /\ DOMAIN q = 1..(n + 1) /\ p \in Seq(Event)
      /\ DOMAIN p = 1..n /\ \A i \in 1..n : p[i] = q[i + 1]
  BY <1>1, <1>3
<1>5. \A i \in 1..(n + 1) : q[i] \in Event
  BY <1>3, <1>4
<1>6. 1 \in 1..(n + 1) /\ \A i \in 1..n : i + 1 \in 1..(n + 1) /\ 1 <= i + 1
  BY <1>4
<1>7. \A i \in 1..(n + 1) : q[i].at \in Nat /\ q[i].side \in Sides
  BY <1>5 DEF Event
<1>8. /\ \A i, j \in 1..(n + 1) : i <= j => q[i].at <= q[j].at
      /\ \A i \in 1..(n + 1) : q[i].at <= now + skew
      /\ \A i \in 1..(n + 1), s \in Sides : lastEvent[s] # Never => lastEvent[s] <= q[i].at
  BY <1>4 DEF WindowInv, WireOrdered, WireAhead
<1>9. liqWire'.queue = p /\ liqWire' \in [queue : Seq(Event), sent : Nat]
  <2> HIDE DEF p
  <2> QED
    BY <1>1, <1>3, <1>4
<1>10. /\ t \in Nat /\ e.side \in Sides /\ t <= now + skew
       /\ lastEvent[e.side] # Never => lastEvent[e.side] <= t
       /\ \A i \in 1..n : p[i].at = q[i + 1].at /\ t <= p[i].at
  <2> HIDE DEF q, p, n, e
  <2> QED
    BY <1>4, <1>6, <1>7, <1>8
<1> HIDE DEF q, p, n, e
<1>11. t \in Times /\ Align(t) \in Windows
  <2>1. t \in Times
    BY <1>2, <1>10, EdgeSettings DEF Times
  <2> QED
    BY <2>1 DEF Windows
<1>12. /\ r \in Side /\ r.start = Align(t) /\ r.sum = Notional * r.count
       /\ now < Align(t) + Window => r.count = m
       /\ \A w \in Windows : Align(t) < w => counted[e.side][w] = 0
       /\ \A w \in Windows : w + Baseline >= now + skew =>
            TotalOf(r, w) = Notional * (IF w = Align(t) THEN m ELSE counted[e.side][w])
  BY <1>10, <1>11, IngestKeepsSide
<1>13. m \in Nat /\ counted[e.side] \in [Windows -> Nat]
  BY <1>2, <1>10, <1>11 DEF WindowType
<1> HIDE DEF r, t, m
<1>14. /\ sides' \in [Sides -> Side] /\ sides'[e.side] = r
       /\ \A s \in Sides \ {e.side} : sides'[s] = sides[s]
  BY <1>1, <1>2, <1>10, <1>12 DEF WindowType
<1>15. /\ lastEvent' \in [Sides -> Moment] /\ lastEvent'[e.side] = t
       /\ \A s \in Sides \ {e.side} : lastEvent'[s] = lastEvent[s]
  BY <1>1, <1>2, <1>10 DEF WindowType, Moment
<1>16. /\ counted' \in [Sides -> [Windows -> Nat]]
       /\ counted'[e.side] = [counted[e.side] EXCEPT ![Align(t)] = m]
       /\ \A s \in Sides \ {e.side} : counted'[s] = counted[s]
  <2>1. counted' = [counted EXCEPT ![e.side] = [counted[e.side] EXCEPT ![Align(t)] = m]]
    BY <1>1
  <2>2. [counted[e.side] EXCEPT ![Align(t)] = m] \in [Windows -> Nat]
    BY <1>13
  <2> QED
    BY <1>2, <1>10, <2>1, <2>2 DEF WindowType
<1>17. counted'[e.side][Align(t)] = m
       /\ \A w \in Windows \ {Align(t)} : counted'[e.side][w] = counted[e.side][w]
  BY <1>11, <1>13, <1>16
<1>18. WindowType'
  BY <1>1, <1>2, <1>9, <1>14, <1>15, <1>16 DEF WindowType
<1>19. WireOrdered'
  <2>1. ASSUME NEW i \in 1..n, NEW j \in 1..n, i <= j PROVE p[i].at <= p[j].at
    <3>1. i + 1 \in 1..(n + 1) /\ j + 1 \in 1..(n + 1) /\ i + 1 <= j + 1
      BY <1>6, <2>1
    <3>2. q[i + 1].at <= q[j + 1].at
      BY <1>8, <3>1
    <3> QED
      BY <1>10, <3>2
  <2> QED
    BY <1>4, <1>9, <2>1 DEF WireOrdered
<1>20. WireAhead'
  <2>1. ASSUME NEW i \in 1..n, NEW s \in Sides, lastEvent'[s] # Never
        PROVE  lastEvent'[s] <= p[i].at
    <3>1. CASE s = e.side
      BY <1>10, <1>15, <3>1
    <3>2. CASE s # e.side
      BY <1>6, <1>8, <1>10, <1>15, <2>1, <3>2
    <3> QED
      BY <3>1, <3>2
  <2>2. \A i \in 1..n : p[i].at <= now + skew
    BY <1>6, <1>8, <1>10
  <2> QED
    BY <1>1, <1>4, <1>9, <2>1, <2>2 DEF WireAhead
<1>21. ASSUME NEW s \in Sides PROVE SideSound(s)' /\ SideWhole(s)' /\ NoneLater(s)'
  <2>1. CASE s = e.side
    <3>0. Never \notin Nat
      BY EdgeSettings
    <3>1. SideSound(s)'
      <4>1. r.start # Never
        BY <1>11, <1>12, <3>0, WindowsAreNats
      <4> QED
        BY <1>1, <1>10, <1>12, <1>14, <1>15, <2>1, <3>0, <4>1 DEF SideSound
    <3>2. SideWhole(s)'
      BY <1>1, <1>12, <1>14, <1>15, <1>17, <2>1 DEF SideWhole
    <3>3. NoneLater(s)'
      <4>1. ASSUME NEW w \in Windows, Align(t) < w PROVE counted'[s][w] = 0
        <5>1. w # Align(t)
          BY <1>11, <4>1, WindowsAreNats
        <5> QED
          BY <1>12, <1>17, <2>1, <4>1, <5>1
      <4> QED
        BY <1>10, <1>15, <2>1, <3>0, <4>1 DEF NoneLater
    <3> QED
      BY <3>1, <3>2, <3>3
  <2>2. CASE s # e.side
    <3>1. sides'[s] = sides[s] /\ lastEvent'[s] = lastEvent[s] /\ counted'[s] = counted[s]
      BY <1>14, <1>15, <1>16, <2>2
    <3>2. SideSound(s) /\ SideWhole(s) /\ NoneLater(s)
      BY DEF WindowInv
    <3> QED
      BY <1>1, <3>1, <3>2 DEF SideSound, SideWhole, NoneLater
  <2> QED
    BY <2>1, <2>2
<1>22. BaselineExact'
  <2>1. ASSUME NEW s \in Sides, NEW w \in Windows, w + Baseline >= now + skew
        PROVE  TotalOf(sides'[s], w) = Notional * counted'[s][w]
    <3>1. CASE s = e.side
      <4>1. counted'[s][w] = IF w = Align(t) THEN m ELSE counted[e.side][w]
        BY <1>17, <3>1
      <4>2. TotalOf(r, w) = Notional * (IF w = Align(t) THEN m ELSE counted[e.side][w])
        BY <1>12, <2>1
      <4>3. sides'[s] = r
        BY <1>14, <3>1
      <4> QED
        BY <4>1, <4>2, <4>3
    <3>2. CASE s # e.side
      <4>1. sides'[s] = sides[s] /\ counted'[s] = counted[s]
        BY <1>14, <1>16, <3>2
      <4>2. TotalOf(sides[s], w) = Notional * counted[s][w]
        BY <2>1 DEF WindowInv, BaselineExact
      <4> QED
        BY <4>1, <4>2
    <3> QED
      BY <3>1, <3>2
  <2> QED
    BY <1>1, <2>1 DEF BaselineExact
<1> QED
  BY <1>18, <1>19, <1>20, <1>21, <1>22 DEF WindowInv

LEMMA WindowStep == WindowInv /\ [EdgeNext]_edgeVars => WindowInv'
<1> SUFFICES ASSUME WindowInv, [EdgeNext]_edgeVars PROVE WindowInv'
  OBVIOUS
<1>1. ASSUME UNCHANGED <<now, skew, liqWire, sides, counted, lastEvent>> PROVE WindowInv'
  <2>1. liqWire' \in [queue : Seq(Event), sent : Nat] /\ WireOrdered' /\ WireAhead'
    BY <1>1 DEF WindowInv, WindowType, WireOrdered, WireAhead
  <2> QED
    BY <1>1, <2>1, WireKeepsWindows
<1>2. CASE \/ LiqReopens \/ BookChange \/ TickerMessage \/ TickerFails \/ TickerReopens
           \/ UNCHANGED edgeVars
  <2>1. UNCHANGED <<now, skew, liqWire, sides, counted, lastEvent>>
    BY <1>2 DEF LiqReopens, BookChange, TickerMessage, TickerFails, TickerReopens,
                edgeVars, liqVars
  <2> QED
    BY <1>1, <2>1
<1> QED
  BY <1>2, ClockKeepsWindows, ForceOrderKeepsWindows, FailureKeepsWindows, ReadKeepsWindows,
     MessageKeepsWindows DEF EdgeNext

LEMMA WindowInvariance == EdgeSpec => []WindowInv
  BY InitialWindows, WindowStep, PTL DEF EdgeSpec

(* Every liquidation of a window younger than the baseline is in the totals,  *)
(* once, whoever closed its bucket: the next event or a read (add, prune,     *)
(* _current).                                                                 *)
THEOREM TotalsAreExact == EdgeSpec => []BaselineExact
<1>1. WindowInv => BaselineExact
  BY DEF WindowInv
<1> QED
  BY <1>1, WindowInvariance, PTL

(* The cycle is told exactly what arrived for the live window, however        *)
(* messages, reads and the clock interleave (snapshot, _current).             *)
THEOREM ReportsAreExact == EdgeSpec => []ReportExact
<1>1. ASSUME WindowInv PROVE ReportExact
  <2> SUFFICES ASSUME NEW s \in Sides
               PROVE  LET n == counted[s][LiveWindow(s, now)]
                      IN  /\ Reported(sides[s]).sum = Notional * n
                          /\ Reported(sides[s]).count = Min({n, CountCap})
    BY DEF ReportExact
  <2> DEFINE side == sides[s]
             r == Current(side)
             L == lastEvent[s]
             n == counted[s][LiveWindow(s, now)]
  <2>1. /\ side \in Side /\ SideSound(s) /\ SideWhole(s) /\ NoneLater(s) /\ L \in Moment
        /\ now \in 0..MaxClock
    BY <1>1 DEF WindowInv, WindowType
  <2>2. now \in Nat /\ now \in Times /\ Never \notin Nat /\ Window \in Nat \ {0}
    BY <2>1, EdgeSettings DEF Times
  <2>3. Align(now) \in Windows /\ Align(now) \in Nat
        /\ Align(now) <= now /\ now < Align(now) + Window
    BY <2>2, WindowStart DEF Windows
  <2>4. /\ r.sum = Notional * r.count
        /\ Aged(side) => r.count = 0
        /\ ~ Aged(side) => r = side
    BY <2>1, <2>2, CurrentSide DEF SideSound
  <2>5. Reported(side).sum = r.sum /\ Reported(side).count = Min({r.count, CountCap})
    BY DEF Reported
  <2>6. r.count = n
    <3>1. CASE L = Never
      <4>1. n = 0
        BY <2>1, <2>3, <3>1 DEF LiveWindow, NoneLater
      <4>2. side.start = Never /\ side.count = 0
        BY <2>1, <3>1 DEF SideSound
      <4>3. ~ Aged(side)
        BY <4>2 DEF Aged
      <4> HIDE DEF r, n
      <4> QED
        BY <2>4, <4>1, <4>2, <4>3
    <3>2. CASE L # Never
      <4>1. L \in Nat /\ Align(L) \in Nat
        BY <2>1, <3>2, WindowStart DEF Moment
      <4>2. CASE now < Align(L) + Window
        <5>1. ~ (Align(L) < Align(now))
          <6>1. Align(L) < Align(now) => Align(L) + Window <= Align(now)
            BY <2>2, <4>1, WindowsApart
          <6> QED
            BY <2>2, <2>3, <4>1, <4>2, <6>1
        <5>2. Max({Align(now), Align(L)}) = Align(L)
          BY <2>3, <4>1, <5>1 DEF Max
        <5>3. LiveWindow(s, now) = Align(L)
          BY <3>2, <5>2 DEF LiveWindow
        <5>4. side.start = Align(L) /\ side.count = counted[s][Align(L)]
          BY <2>1, <3>2, <4>2 DEF SideWhole
        <5>5. ~ Aged(side)
          BY <2>2, <4>1, <4>2, <5>4 DEF Aged
        <5> HIDE DEF r
        <5> QED
          BY <2>4, <5>3, <5>4, <5>5
      <4>3. CASE ~ (now < Align(L) + Window)
        <5>1. Align(L) < Align(now)
          <6>1. Align(now) < Align(L) => Align(now) + Window <= Align(L)
            BY <2>2, <4>1, WindowsApart
          <6> QED
            BY <2>2, <2>3, <4>1, <4>3, <6>1
        <5>2. Max({Align(now), Align(L)}) = Align(now)
          BY <2>3, <4>1, <5>1 DEF Max
        <5>3. LiveWindow(s, now) = Align(now)
          BY <3>2, <5>2 DEF LiveWindow
        <5>4. n = 0
          BY <2>1, <2>3, <5>1, <5>3 DEF NoneLater
        <5>5. CASE side.start = Never
          <6>1. ~ Aged(side) /\ side.count = 0
            BY <2>1, <5>5 DEF Aged, SideSound
          <6> HIDE DEF r, n
          <6> QED
            BY <2>4, <5>4, <6>1
        <5>6. CASE side.start # Never
          <6>1. side.start = Align(L)
            BY <2>1, <5>6 DEF SideSound
          <6>2. Aged(side)
            BY <2>2, <4>1, <4>3, <5>6, <6>1 DEF Aged
          <6> HIDE DEF r, n
          <6> QED
            BY <2>4, <5>4, <6>2
        <5> QED
          BY <5>5, <5>6
      <4> QED
        BY <4>2, <4>3
    <3> QED
      BY <3>1, <3>2
  <2> HIDE DEF r, n
  <2> QED
    BY <2>4, <2>5, <2>6 DEF n
<1> QED
  BY <1>1, WindowInvariance, PTL

=============================================================================
