--------------------------- MODULE Signals_proofs ---------------------------
(***************************************************************************)
(* Theorems about Signals for any deliveries, images, workers and scripts, *)
(* any hour a replay starts at, and any number of inputs.                  *)
(***************************************************************************)
EXTENDS Signals, TLAPS, FiniteSetTheorems, WellFoundedInduction

-----------------------------------------------------------------------------
(* Least and greatest *)

\* A set of integers with a lower bound has a least element.
LEMMA LeastInt ==
  ASSUME NEW S \in SUBSET Int, S # {}, NEW low \in Int, \A x \in S : low <= x
  PROVE  /\ Min(S) \in S
         /\ \A x \in S : Min(S) <= x
<1>. DEFINE R == OpToRel(<, Nat)
            T == {x - low : x \in S}
<1>1. \A x, y \in Nat : x < y => <<x, y>> \in R
  BY DEF OpToRel
<1>2. IsWellFoundedOn(R, Nat)
  BY NatLessThanWellFounded
<1>3. T \in SUBSET Nat /\ T # {}
  <2>1. \A x \in S : x - low \in Nat
    OBVIOUS
  <2>2. PICK x \in S : TRUE
    OBVIOUS
  <2>3. x - low \in T
    OBVIOUS
  <2>. QED
    BY <2>1, <2>3
<1>. HIDE DEF R, T
<1>4. PICK m \in T : \A y \in T : ~(<<y, m>> \in R)
  BY <1>2, <1>3, WFMin, Zenon
<1>5. \A k \in T : ~(k < m)
  BY <1>1, <1>3, <1>4, Zenon
<1>6. \A k \in T : m <= k
  BY <1>3, <1>5
<1>7. PICK least \in S : m = least - low
  BY <1>3 DEF T
<1>8. \A x \in S : least <= x
  <2>. TAKE x \in S
  <2>1. x - low \in T
    BY DEF T
  <2>. QED
    BY <1>6, <1>7, <2>1
<1>. QED
  BY <1>8 DEF Min

LEMMA MinOfTwo ==
  ASSUME NEW a \in Int, NEW b \in Int
  PROVE  Min({a, b}) = IF a <= b THEN a ELSE b
  BY DEF Min

LEMMA MaxOfTwo ==
  ASSUME NEW a \in Int, NEW b \in Int
  PROVE  Max({a, b}) = IF a >= b THEN a ELSE b
  BY DEF Max

-----------------------------------------------------------------------------
(* The median *)

\* The k-th smallest of finitely many natural numbers exists.
LEMMA KthIsValue ==
  ASSUME NEW D, IsFiniteSet(D), NEW f \in [D -> Nat], NEW bound \in Nat,
         \A d \in D : f[d] <= bound,
         NEW k \in Nat \ {0}, k <= Cardinality(D)
  PROVE  Kth(f, k) \in {f[d] : d \in D}
<1>. DEFINE UpTo(v) == {d \in D : f[d] <= v}
            Enough == {v \in Nat : Cardinality(UpTo(v)) >= k}
<1>1. \A v \in Int : IsFiniteSet(UpTo(v)) /\ Cardinality(UpTo(v)) \in Nat
  <2>. TAKE v \in Int
  <2>1. UpTo(v) \in SUBSET D
    OBVIOUS
  <2>. QED
    BY <2>1, FS_Subset, FS_CardinalityType, Zenon
<1>2. bound \in Enough
  <2>1. UpTo(bound) = D
    OBVIOUS
  <2>2. Cardinality(D) \in Nat
    BY FS_CardinalityType
  <2>. QED
    BY <2>1, <2>2
<1>. DEFINE v == Min(Enough)
<1>3. /\ v \in Nat
      /\ Cardinality(UpTo(v)) >= k
      /\ \A x \in Enough : v <= x
  <2>1. \A x \in Enough : x \in Nat /\ Cardinality(UpTo(x)) >= k
    OBVIOUS
  <2>. HIDE DEF Enough
  <2>2. Enough \in SUBSET Int /\ \A x \in Enough : 0 <= x
    <3>1. \A x \in Enough : x \in Nat
      BY <2>1, Zenon
    <3>2. \A x \in Nat : x \in Int /\ 0 <= x
      OBVIOUS
    <3>. QED
      BY <3>1, <3>2, Zenon
  <2>3. Enough # {} /\ 0 \in Int
    BY <1>2
  <2>4. v \in Enough /\ \A x \in Enough : v <= x
    BY <2>2, <2>3, LeastInt, Zenon
  <2>. QED
    BY <2>1, <2>4
<1>. HIDE DEF v
<1>4. Cardinality(UpTo(v - 1)) < k
  <2>1. CASE v = 0
    <3>1. UpTo(v - 1) = {}
      BY <2>1
    <3>. QED
      BY <3>1, FS_EmptySet
  <2>2. CASE v # 0
    <3>1. v - 1 \in Nat /\ v - 1 \notin Enough
      BY <1>3, <2>2
    <3>2. \A x \in Nat : x \notin Enough => ~(Cardinality(UpTo(x)) >= k)
      OBVIOUS
    <3>3. v - 1 \in Int
      BY <3>1
    <3>4. Cardinality(UpTo(v - 1)) \in Nat
      BY <3>3, <1>1, Zenon
    <3>. HIDE DEF UpTo, Enough
    <3>. QED
      BY <3>1, <3>2, <3>4
  <2>. QED
    BY <2>1, <2>2
<1>5. {d \in D : f[d] < v} = UpTo(v - 1)
  BY <1>3
<1>6. \E d \in D : f[d] = v
  <2>1. UpTo(v) # UpTo(v - 1)
    BY <1>1, <1>3, <1>4
  <2>. QED
    BY <2>1, <1>3
<1>7. DOMAIN f = D
  OBVIOUS
<1>8. \E x \in {f[d] : d \in DOMAIN f} :
        /\ Cardinality({d \in DOMAIN f : f[d] < x}) < k
        /\ Cardinality({d \in DOMAIN f : f[d] <= x}) >= k
  BY <1>3, <1>4, <1>5, <1>6, <1>7
<1>. QED
  BY <1>7, <1>8 DEF Kth

LEMMA MedianInNat ==
  ASSUME NEW D, IsFiniteSet(D), NEW f \in [D -> Nat], NEW bound \in Nat,
         \A d \in D : f[d] <= bound, Cardinality(D) >= 1
  PROVE  Median(f) \in Nat
<1>1. DOMAIN f = D /\ Cardinality(D) \in Nat
  BY FS_CardinalityType
<1>. DEFINE n == Cardinality(D)
<1>2. /\ (n + 1) \div 2 \in Nat \ {0} /\ (n + 1) \div 2 <= n
      /\ n \div 2 + 1 \in Nat \ {0} /\ n \div 2 + 1 <= n
  BY <1>1
<1>3. Kth(f, (n + 1) \div 2) \in Nat /\ Kth(f, n \div 2 + 1) \in Nat
  <2>1. \A x \in {f[d] : d \in D} : x \in Nat
    OBVIOUS
  <2>. HIDE DEF n
  <2>. QED
    BY <1>2, <2>1, KthIsValue DEF n
<1>. QED
  BY <1>1, <1>3 DEF Median
-----------------------------------------------------------------------------
(* Late starts *)

\* A history the rules may meet: windows of one day each, before t.
PastOK(past, t) ==
  /\ past \in [DOMAIN past -> Nat]
  /\ \A i \in DOMAIN past : i.start \in Int /\ i.start < t /\ InOneDay(i.start)

LEMMA FirstHoursInDay ==
  ASSUME NEW past, NEW t \in Int, PastOK(past, t)
  PROVE  /\ IsFiniteSet(DOMAIN FirstHours(past, t))
         /\ FirstHours(past, t) \in [DOMAIN FirstHours(past, t) -> Nat]
         /\ \A d \in DOMAIN FirstHours(past, t) : FirstHours(past, t)[d] <= 23
<1>. DEFINE window == DayOf(t) - DayBaselineWindowDays .. DayOf(t) - 1
            days == {d \in window : ActiveOn(past, d) # {}}
<1>1. DayOf(t) - DayBaselineWindowDays \in Int /\ DayOf(t) - 1 \in Int
  BY DEF DayOf, DayBaselineWindowDays
<1>2. IsFiniteSet(days)
  <2>1. IsFiniteSet(window)
    BY <1>1, FS_Interval
  <2>2. days \in SUBSET window
    OBVIOUS
  <2>. QED
    BY <2>1, <2>2, FS_Subset
<1>3. \A d \in days : HourOf(Min(ActiveOn(past, d))) \in 0 .. 23
  <2>. SUFFICES ASSUME NEW d \in days
                PROVE  HourOf(Min(ActiveOn(past, d))) \in 0 .. 23
    OBVIOUS
  <2>1. d \in Int /\ ActiveOn(past, d) # {}
    BY <1>1
  <2>2. ActiveOn(past, d) \in SUBSET Int /\ \A x \in ActiveOn(past, d) : d * 1440 <= x
    BY <2>1 DEF ActiveOn, Active, DayOf, PastOK
  <2>. DEFINE low == d * 1440
  <2>3. low \in Int
    BY <2>1
  <2>4. \A x \in ActiveOn(past, d) : low <= x
    BY <2>2
  <2>. HIDE DEF low
  <2>5. Min(ActiveOn(past, d)) \in ActiveOn(past, d)
    BY <2>1, <2>2, <2>3, <2>4, LeastInt, Zenon
  <2>. QED
    BY <2>2, <2>5 DEF HourOf
<1>4. FirstHours(past, t) = [d \in days |-> HourOf(Min(ActiveOn(past, d)))]
  BY DEF FirstHours
<1>. QED
  BY <1>2, <1>3, <1>4

\* No activity today and two hours into the day: two quiet hours.
LEMMA QuietSinceMidnight ==
  ASSUME NEW past, NEW t \in Int, PastOK(past, t), ActiveOn(past, DayOf(t)) = {},
         HourOf(t) >= 2
  PROVE  QuietMinutes(past, t) >= StartMinQuietMinutes
<1>. DEFINE ago == {t - (i.start + BucketMinutes) : i \in Active(past)}
<1>1. BucketMinutes \in 1 .. 15
  BY SignalsAssumption
<1>2. \A i \in Active(past) : t - (i.start + BucketMinutes) \in Int /\ t - (i.start + BucketMinutes) >= 120
  <2>. SUFFICES ASSUME NEW i \in Active(past)
                PROVE  t - (i.start + BucketMinutes) >= 120
    BY <1>1 DEF Active, PastOK
  <2>1. i \in DOMAIN past /\ i.start \in Int /\ i.start < t /\ InOneDay(i.start)
    BY DEF Active, PastOK
  <2>2. DayOf(i.start) # DayOf(t)
    BY <2>1 DEF ActiveOn
  <2>. QED
    BY <1>1, <2>1, <2>2 DEF DayOf, HourOf, InOneDay
<1>3. \A x \in ago : x \in Int /\ x >= 120
  BY <1>2
<1>. DEFINE quiet == IF ago = {} THEN QuietRunCapMinutes
                     ELSE Min({QuietRunCapMinutes, Max({0, Min(ago)})})
<1>0. QuietMinutes(past, t) = quiet
  BY DEF QuietMinutes
<1>4. CASE ago = {}
  <2>1. QuietMinutes(past, t) = QuietRunCapMinutes
    BY <1>0, <1>4, Zenon
  <2>. HIDE DEF ago, quiet
  <2>2. QuietRunCapMinutes >= StartMinQuietMinutes
    BY DEF QuietRunCapMinutes, StartMinQuietMinutes
  <2>. QED
    BY <2>1, <2>2, Zenon
<1>5. CASE ago # {}
  <2>1. Min(ago) \in Int /\ Min(ago) >= 120
    <3>1. ago \in SUBSET Int /\ 120 \in Int /\ \A x \in ago : 120 <= x
      BY <1>3
    <3>2. Min(ago) \in ago
      <4>. HIDE DEF ago
      <4>. QED
        BY <1>5, <3>1, LeastInt
    <3>. QED
      BY <1>3, <3>2
  <2>2. QuietMinutes(past, t) = Min({QuietRunCapMinutes, Max({0, Min(ago)})})
    BY <1>0, <1>5
  <2>. HIDE DEF ago
  <2>3. Max({0, Min(ago)}) = Min(ago)
    BY <2>1, MaxOfTwo
  <2>. DEFINE m == Min(ago)
  <2>. HIDE DEF m
  <2>4. Min({1440, m}) >= 120
    BY <2>1, MinOfTwo DEF m
  <2>. QED
    BY <2>2, <2>3, <2>4 DEF QuietRunCapMinutes, StartMinQuietMinutes, m
<1>. QED
  BY <1>4, <1>5

\* A late start is a start, by the rules alone.
LEMMA LateStartStarts ==
  ASSUME NEW past, NEW t \in Int, PastOK(past, t), NEW count \in Nat,
         IsLateStart(count, t, History(past, t))
  PROVE  IsStart(count, t, History(past, t))
<1>. DEFINE h == History(past, t)
<1>1. /\ h.quiet = QuietMinutes(past, t)
      /\ h.activeToday = ActiveOn(past, DayOf(t))
      /\ h.firstHours = FirstHours(past, t)
  BY DEF History
<1>2. /\ Cardinality(DOMAIN h.firstHours) >= 5
      /\ h.activeToday = {}
      /\ count >= 5
      /\ HourOf(t) - Median(h.firstHours) >= 2
  BY DEF IsLateStart, LateStartMinDays, LateStartMinDetections, LateStartHourDelay
<1>. HIDE DEF h
<1>3. Median(FirstHours(past, t)) \in Nat
  <2>. DEFINE f == FirstHours(past, t)
  <2>1. /\ IsFiniteSet(DOMAIN f)
        /\ f \in [DOMAIN f -> Nat]
        /\ \A d \in DOMAIN f : f[d] <= 23
    BY FirstHoursInDay
  <2>2. Cardinality(DOMAIN f) >= 1
    <3>1. Cardinality(DOMAIN f) \in Nat
      BY <2>1, FS_CardinalityType
    <3>. QED
      BY <1>1, <1>2, <3>1
  <2>. HIDE DEF f
  <2>. QED
    BY <2>1, <2>2, MedianInNat DEF f
<1>4. HourOf(t) \in Int /\ HourOf(t) >= 2
  BY <1>1, <1>2, <1>3 DEF HourOf
<1>5. QuietMinutes(past, t) >= StartMinQuietMinutes
  BY <1>1, <1>2, <1>4, QuietSinceMidnight
<1>. QED
  BY <1>1, <1>2, <1>5 DEF IsStart, StartMinDetections, h

-----------------------------------------------------------------------------
(* The buckets that are ingested *)

\* None of the markers a bucket brings is one that its history may give it.
BucketOK(b) ==
  /\ b.id.start \in Int /\ InOneDay(b.id.start)
  /\ b.count \in Nat
  /\ \A m \in b.markers :
       /\ m = Marker(m.key, m.ts)
       /\ ~ (m.key \in ImplementedHistoryMarkers /\ m.ts = b.id.start)

LEMMA DeliveryOK ==
  ASSUME NEW d \in Deliveries
  PROVE  BucketOK(Transform(d.frags, d.start))
<1>. DEFINE b == Transform(d.frags, d.start)
<1>1. b.id.start = d.start /\ b.count = Detections(d.frags) /\ b.markers = DeriveMarkers(d.frags, d.start)
  BY DEF Transform
<1>2. d.start \in Int /\ InOneDay(d.start) /\ Detections(d.frags) \in Nat
  BY SignalsAssumption
<1>3. \A m \in DeriveMarkers(d.frags, d.start) :
        m = Marker(m.key, m.ts) /\ m.key \in {"spike", "after_hours"}
  BY DEF DeriveMarkers, SpikeMarkers, AfterHoursMarkers, Marker
<1>. HIDE DEF b
<1>. QED
  BY <1>1, <1>2, <1>3 DEF BucketOK, ImplementedHistoryMarkers, ProducedHistoryMarkers, b

\* A quarter of an hour that a replay starts a window at.
Quarter(t) == t \in Int /\ t % 15 = 0

LEMMA QuarterInOneDay ==
  ASSUME NEW t, Quarter(t)
  PROVE  InOneDay(t)
<1>1. BucketMinutes \in 1 .. 15
  BY SignalsAssumption
<1>. QED
  BY <1>1 DEF Quarter, InOneDay

LEMMA BuiltOK ==
  ASSUME NEW t, Quarter(t), NEW count \in Nat, NEW keys
  PROVE  /\ BucketOK(BuildBucket(t, count, {}))
         /\ BucketOK(BuildBucket(t, count, Injected(keys, t)))
<1>1. t \in Int /\ InOneDay(t)
  BY QuarterInOneDay DEF Quarter
<1>2. \A m \in Injected(keys, t) : m = Marker(m.key, m.ts) /\ m.ts = t + 7
  BY DEF Injected, Marker
<1>. QED
  BY <1>1, <1>2 DEF BucketOK, BuildBucket

LEMMA HoursAreQuarters ==
  ASSUME NEW t \in Int, t % 60 = 0
  PROVE  /\ Midnight(t) \in Int /\ Midnight(t) % 60 = 0
         /\ \A h \in Nat : Hour(t, h) \in Int /\ Hour(t, h) % 60 = 0
         /\ \A n \in Nat : Quarter(t + (n - 1) * 15)
         /\ Quarter(t)
  BY DEF Midnight, Hour, DayOf, Quarter

LEMMA PickInNat ==
  ASSUME NEW i, NEW low \in Nat, NEW high \in Nat
  PROVE  Pick(i, low, high) \in Nat
  BY DEF Pick

LEMMA ReplayOK ==
  ASSUME NEW name \in Scenarios, NEW n \in DOMAIN ReplayOf(name)
  PROVE  BucketOK(ReplayOf(name)[n])
<1>1. Base \in Int /\ Base % 60 = 0
  BY SignalsAssumption
<1>2. /\ Quarter(Base)
      /\ \A h \in Nat : Hour(Base, h) \in Int /\ Hour(Base, h) % 60 = 0
      /\ Midnight(Base) \in Int /\ Midnight(Base) % 60 = 0
  BY <1>1, HoursAreQuarters
<1>3. \A t \in Int : t % 60 = 0 =>
        /\ \A i \in Nat : Quarter(t + (i - 1) * 15)
        /\ Quarter(t)
  BY HoursAreQuarters
<1>4. CASE name = "steady"
  <2>. DEFINE t == Hour(Base, 6) + (n - 1) * 15
  <2>1. ReplayOf(name) = ScenarioSteady(Hour(Base, 6), 10)
    BY <1>4 DEF ReplayOf
  <2>2. n \in Nat /\ ReplayOf(name)[n] = BuildBucket(t, Pick(n, 45, 120), {})
    BY <2>1 DEF ScenarioSteady, Quarters
  <2>3. Quarter(t)
    BY <1>2, <1>3, <2>2
  <2>. QED
    BY <2>2, <2>3, PickInNat, BuiltOK
<1>5. CASE name = "idle"
  <2>. DEFINE t == Base + (n - 1) * 15
  <2>1. ReplayOf(name) = ScenarioIdle(Base, 2)
    BY <1>5 DEF ReplayOf
  <2>2. n \in Nat /\ ReplayOf(name)[n] = BuildBucket(t, Pick(n, 0, 2), {})
    BY <2>1 DEF ScenarioIdle, Quarters
  <2>3. Quarter(t)
    BY <1>1, <1>3, <2>2
  <2>. QED
    BY <2>2, <2>3, PickInNat, BuiltOK
<1>6. CASE name = "spike"
  <2>. DEFINE t == Base + (n - 1) * 15
  <2>1. ReplayOf(name) = ScenarioSpike(Base, 2, 3)
    BY <1>6 DEF ReplayOf
  <2>2. /\ n \in Nat
        /\ \/ ReplayOf(name)[n] = BuildBucket(t, Pick(n, 225, 450), Injected({"spike"}, t))
           \/ ReplayOf(name)[n] = BuildBucket(t, 0, Injected({"drop"}, t))
           \/ ReplayOf(name)[n] = BuildBucket(t, Pick(n, 45, 120), {})
    BY <2>1 DEF ScenarioSpike, Quarters
  <2>3. Quarter(t)
    BY <1>1, <1>3, <2>2
  <2>. QED
    BY <2>2, <2>3, PickInNat, BuiltOK
<1>7. CASE name = "anomaly"
  <2>. DEFINE t == Base + (n - 1) * 15
  <2>1. ReplayOf(name) = ScenarioAnomaly(Base, 2)
    BY <1>7 DEF ReplayOf
  <2>2. n \in Nat /\ ReplayOf(name)[n] = BuildBucket(t, Pick(n, 75, 150), {})
    BY <2>1 DEF ScenarioAnomaly, Quarters
  <2>3. Quarter(t)
    BY <1>1, <1>3, <2>2
  <2>. QED
    BY <2>2, <2>3, PickInNat, BuiltOK
<1>8. CASE name = "after_hours"
  <2>. DEFINE t == Hour(Base, 22) + (n - 1) * 15
  <2>1. ReplayOf(name) = ScenarioAfterHours(Base, 2)
    BY <1>8 DEF ReplayOf
  <2>2. /\ n \in Nat
        /\ ReplayOf(name)[n] = BuildBucket(t, Pick(n, 30, 90), Injected({"after_hours"}, t))
    BY <2>1 DEF ScenarioAfterHours, Quarters
  <2>3. Quarter(t)
    BY <1>2, <1>3, <2>2
  <2>. QED
    BY <2>2, <2>3, PickInNat, BuiltOK
<1>9. CASE name = "late_start_by_3h"
  <2>. DEFINE t == Hour(Base, IF n = 6 THEN 10 ELSE 7) - (6 - n) * 1440
  <2>1. ReplayOf(name) = ScenarioLateStartBy3h(Base)
    BY <1>9 DEF ReplayOf
  <2>2. n \in 1 .. 6 /\ ReplayOf(name)[n] = BuildBucket(t, 75, {})
    BY <2>1 DEF ScenarioLateStartBy3h
  <2>3. Quarter(t)
    BY <1>2, <2>2 DEF Quarter
  <2>. QED
    BY <2>2, <2>3, BuiltOK
<1>10. CASE name = "start_of_day"
  <2>. DEFINE t == Midnight(Base) + (n - 1) * 15
  <2>1. ReplayOf(name) = ScenarioStartOfDay(Base, 6)
    BY <1>10 DEF ReplayOf
  <2>2. Max({3, 6 - 3}) = 3
    BY MaxOfTwo
  <2>3. /\ n \in Nat
        /\ ReplayOf(name)[n] = BuildBucket(t, IF n <= 12 THEN 0 ELSE Pick(n, 75, 120), {})
    BY <2>1, <2>2 DEF ScenarioStartOfDay, Quarters
  <2>4. Quarter(t)
    BY <1>2, <1>3, <2>3
  <2>. QED
    BY <2>3, <2>4, PickInNat, BuiltOK
<1>11. CASE name = "drop_midday"
  <2>. DEFINE t == Hour(Base, 8) + (n - 1) * 15
  <2>1. ReplayOf(name) = ScenarioDropMidday(Base, 5)
    BY <1>11 DEF ReplayOf
  <2>2. Max({5, 5}) = 5
    BY MaxOfTwo
  <2>3. /\ n \in Nat
        /\ ReplayOf(name)[n] = BuildBucket(t, IF n = 17 THEN 0 ELSE Pick(n, 90, 150), {})
    BY <2>1, <2>2 DEF ScenarioDropMidday, Quarters
  <2>4. Quarter(t)
    BY <1>2, <1>3, <2>3
  <2>. QED
    BY <2>3, <2>4, PickInNat, BuiltOK
<1>12. CASE name = "after_hours_drop"
  <2>. DEFINE t == Hour(Base, 23) + (n - 1) * 15
  <2>1. ReplayOf(name) = ScenarioAfterHoursDrop(Base, 2, 2)
    BY <1>12 DEF ReplayOf
  <2>2. /\ n \in Nat
        /\ \/ ReplayOf(name)[n] =
                BuildBucket(t, Pick(n, 225, 375), Injected({"after_hours", "spike"}, t))
           \/ ReplayOf(name)[n] = BuildBucket(t, 0, Injected({"after_hours", "drop"}, t))
           \/ ReplayOf(name)[n] = BuildBucket(t, Pick(n, 7, 30), Injected({"after_hours"}, t))
    BY <2>1 DEF ScenarioAfterHoursDrop, Quarters
  <2>3. Quarter(t)
    BY <1>2, <1>3, <2>2
  <2>. QED
    BY <2>2, <2>3, PickInNat, BuiltOK
<1>13. name \in {"steady", "idle", "spike", "anomaly", "after_hours", "late_start_by_3h",
                "start_of_day", "drop_midday", "after_hours_drop"}
  BY SignalsAssumption
<1>. QED
  BY <1>4, <1>5, <1>6, <1>7, <1>8, <1>9, <1>10, <1>11, <1>12, <1>13

-----------------------------------------------------------------------------
(* What is derived of a bucket *)

LEMMA MarkerIs ==
  ASSUME NEW key, NEW t, NEW k, NEW u
  PROVE  /\ Marker(key, t).key = key /\ Marker(key, t).ts = t
         /\ Marker(key, t) = Marker(k, u) <=> key = k /\ t = u
  BY DEF Marker

LEMMA Derived ==
  ASSUME NEW count, NEW t, NEW past, NEW produce
  PROVE  /\ \A key : Marker(key, t) \in DeriveHistoryMarkers(count, t, past, produce)
                       <=> key \in produce /\ Fires(key, count, t, History(past, t))
         /\ \A m \in DeriveHistoryMarkers(count, t, past, produce) :
              m = Marker(m.key, m.ts) /\ m.ts = t /\ m.key \in produce
<1>. DEFINE h == History(past, t)
            keys == {k \in produce : Fires(k, count, t, h)}
<1>1. DeriveHistoryMarkers(count, t, past, produce) = {Marker(key, t) : key \in keys}
  BY DEF DeriveHistoryMarkers
<1>. HIDE DEF h
<1>2. \A key : Marker(key, t) \in {Marker(k, t) : k \in keys} <=> key \in keys
  BY MarkerIs
<1>3. \A key : key \in keys <=> key \in produce /\ Fires(key, count, t, h)
  OBVIOUS
<1>4. \A m \in {Marker(k, t) : k \in keys} : m = Marker(m.key, m.ts) /\ m.ts = t /\ m.key \in keys
  BY MarkerIs
<1>. HIDE DEF keys
<1>. QED
  BY <1>1, <1>2, <1>3, <1>4 DEF h

LEMMA FiresIs ==
  ASSUME NEW count, NEW t, NEW h
  PROVE  /\ Fires("start", count, t, h) <=> IsStart(count, t, h)
         /\ Fires("late_start", count, t, h) <=> IsLateStart(count, t, h)
  BY DEF Fires

\* What the table has of the buckets.
RowsTyped(rows) ==
  \A i \in DOMAIN rows :
    /\ i.start \in Int /\ InOneDay(i.start)
    /\ rows[i].count \in Nat
    /\ rows[i] = [count |-> rows[i].count, markers |-> rows[i].markers, first |-> rows[i].first]

LEMMA PastIsOK ==
  ASSUME NEW rows, RowsTyped(rows), NEW t
  PROVE  PastOK(Past(rows, t), t)
  BY DEF Past, PastOK, RowsTyped

LEMMA PastSame ==
  ASSUME NEW rows, NEW rows2, NEW t,
         \A i : i \in DOMAIN rows /\ i.start < t <=> i \in DOMAIN rows2 /\ i.start < t,
         \A i \in DOMAIN rows : i.start < t => rows[i].count = rows2[i].count
  PROVE  Past(rows2, t) = Past(rows, t)
<1>1. {k \in DOMAIN rows : k.start < t} = {k \in DOMAIN rows2 : k.start < t}
  OBVIOUS
<1>. QED
  BY <1>1 DEF Past

\* What is true of any copy c of the markers of row i, in the table or with a
\* script: the rules agree unless the past has grown, and only a busy bucket is
\* a start, which a late start is.
Sound(rows, late, i, c) ==
  /\ rows[i].first \subseteq c
  /\ \A m \in c : m = Marker(m.key, m.ts)
  /\ i \notin late =>
       /\ \A key \in ImplementedHistoryMarkers :
            Marker(key, i.start) \in c
              => Fires(key, rows[i].count, i.start, History(Past(rows, i.start), i.start))
       /\ DeriveHistoryMarkers(rows[i].count, i.start, Past(rows, i.start), ProducedHistoryMarkers)
            \subseteq c
  /\ Marker("start", i.start) \in c => rows[i].count >= StartMinDetections
  /\ Marker("late_start", i.start) \in c => Marker("start", i.start) \in c

RowsOK(rows, late) ==
  /\ RowsTyped(rows)
  /\ late \subseteq DOMAIN rows
  /\ DOMAIN rows \cap Images = {}
  /\ \A i \in DOMAIN rows : Sound(rows, late, i, rows[i].markers)

\* Rows with the same count, the same past and the same markers at ingest.
LEMMA SoundSame ==
  ASSUME NEW rows, NEW rows2, NEW late, NEW late2, NEW i, NEW c,
         Sound(rows, late, i, c),
         rows2[i].count = rows[i].count, rows2[i].first = rows[i].first,
         i \in late => i \in late2,
         i \notin late2 => Past(rows2, i.start) = Past(rows, i.start)
  PROVE  Sound(rows2, late2, i, c)
  BY DEF Sound

\* What the rules add to a sound set of markers keeps it sound.
LEMMA DerivedIsSound ==
  ASSUME NEW rows, RowsTyped(rows), NEW late, NEW i \in DOMAIN rows, NEW c,
         rows[i].first \subseteq c,
         \A m \in c : m = Marker(m.key, m.ts),
         i \notin late => \A key \in ImplementedHistoryMarkers :
            Marker(key, i.start) \in c
              => Fires(key, rows[i].count, i.start, History(Past(rows, i.start), i.start)),
         Marker("start", i.start) \in c => rows[i].count >= StartMinDetections,
         Marker("late_start", i.start) \in c => Marker("start", i.start) \in c,
         NEW produce \in {ProducedHistoryMarkers, ImplementedHistoryMarkers}
  PROVE  Sound(rows, late, i,
           c \cup DeriveHistoryMarkers(rows[i].count, i.start, Past(rows, i.start), produce))
<1>. DEFINE t == i.start
            n == rows[i].count
            past == Past(rows, t)
            new == DeriveHistoryMarkers(n, t, past, produce)
<1>1. /\ t \in Int /\ n \in Nat /\ PastOK(past, t)
  BY PastIsOK DEF RowsTyped
<1>2. /\ \A key : Marker(key, t) \in new <=> key \in produce /\ Fires(key, n, t, History(past, t))
      /\ \A m \in new : m = Marker(m.key, m.ts)
  BY Derived
<1>3. Fires("start", n, t, History(past, t)) => n >= StartMinDetections
  BY FiresIs DEF IsStart
<1>4. Fires("late_start", n, t, History(past, t)) => Fires("start", n, t, History(past, t))
  BY <1>1, FiresIs, LateStartStarts
<1>5. "start" \in produce /\ "late_start" \in produce /\ ProducedHistoryMarkers \subseteq produce
  BY DEF ProducedHistoryMarkers, ImplementedHistoryMarkers
<1>6. DeriveHistoryMarkers(n, t, past, ProducedHistoryMarkers) \subseteq new
  <2>1. /\ \A key : Marker(key, t) \in DeriveHistoryMarkers(n, t, past, ProducedHistoryMarkers)
             <=> key \in ProducedHistoryMarkers /\ Fires(key, n, t, History(past, t))
        /\ \A m \in DeriveHistoryMarkers(n, t, past, ProducedHistoryMarkers) :
             m = Marker(m.key, m.ts) /\ m.ts = t /\ m.key \in ProducedHistoryMarkers
    BY Derived
  <2>. HIDE DEF new
  <2>. QED
    BY <1>2, <1>5, <2>1
<1>. HIDE DEF new, past, n, t
<1>7. i.start = t /\ rows[i].count = n /\ Past(rows, i.start) = past
  BY DEF past, n, t
<1>. QED
  BY <1>2, <1>3, <1>4, <1>5, <1>6, <1>7 DEF Sound, new

-----------------------------------------------------------------------------
\* The markers of a new row.
MarkersOf(rows, b) ==
  b.markers \cup DeriveHistoryMarkers(
    b.count, b.id.start, Past(rows, b.id.start), ProducedHistoryMarkers)

Overtaken(rows, late, b) ==
  late \cup {i \in DOMAIN rows : b.id \notin DOMAIN rows /\ i.start > b.id.start}

LEMMA IngestedRows ==
  ASSUME NEW rows, NEW b
  PROVE  /\ DOMAIN Ingested(rows, b) = DOMAIN rows \cup {b.id}
         /\ \A i \in DOMAIN rows : Ingested(rows, b)[i] = rows[i]
         /\ b.id \notin DOMAIN rows => Ingested(rows, b)[b.id] =
              [count |-> b.count, markers |-> MarkersOf(rows, b), first |-> MarkersOf(rows, b)]
<1>. DEFINE row == [count |-> b.count, markers |-> MarkersOf(rows, b), first |-> MarkersOf(rows, b)]
<1>1. Ingested(rows, b) =
        [i \in DOMAIN rows \cup {b.id} |-> IF i \in DOMAIN rows THEN rows[i] ELSE row]
  BY Zenon DEF Ingested, MarkersOf
<1>. HIDE DEF row
<1>2. /\ DOMAIN Ingested(rows, b) = DOMAIN rows \cup {b.id}
      /\ \A i \in DOMAIN rows : Ingested(rows, b)[i] = rows[i]
      /\ b.id \notin DOMAIN rows => Ingested(rows, b)[b.id] = row
  BY <1>1
<1>. QED
  BY <1>2 DEF row

\* Whoever ingests: the copies of older rows stay sound, and the new row is.
LEMMA IngestSound ==
  ASSUME NEW rows, NEW late, RowsOK(rows, late),
         NEW b, BucketOK(b), b.id \notin Images
  PROVE  /\ \A i \in DOMAIN rows : \A c :
              Sound(rows, late, i, c) => Sound(Ingested(rows, b), Overtaken(rows, late, b), i, c)
         /\ RowsOK(Ingested(rows, b), Overtaken(rows, late, b))
<1>. DEFINE after == Ingested(rows, b)
            late2 == Overtaken(rows, late, b)
            row == [count |-> b.count, markers |-> MarkersOf(rows, b), first |-> MarkersOf(rows, b)]
<1>1. /\ DOMAIN after = DOMAIN rows \cup {b.id}
      /\ \A i \in DOMAIN rows : after[i] = rows[i]
      /\ b.id \notin DOMAIN rows => after[b.id] = row
  BY IngestedRows
<1>2. late \subseteq late2 /\ late2 \subseteq DOMAIN rows
  BY DEF RowsOK, Overtaken
<1>3. \A i \in DOMAIN rows \ late2 :
        b.id \in DOMAIN rows \/ ~ (b.id.start < i.start)
  BY DEF Overtaken, RowsOK, RowsTyped, BucketOK
<1>4. b.id.start \in Int /\ InOneDay(b.id.start) /\ b.count \in Nat
  BY DEF BucketOK
<1>. HIDE DEF after, late2
<1>5. ASSUME NEW i \in DOMAIN rows, NEW c, Sound(rows, late, i, c)
      PROVE  Sound(after, late2, i, c)
  <2>1. i \notin late2 => Past(after, i.start) = Past(rows, i.start)
    <3>. SUFFICES ASSUME i \notin late2
                  PROVE  Past(after, i.start) = Past(rows, i.start)
      OBVIOUS
    <3>1. \A k : k \in DOMAIN rows /\ k.start < i.start <=> k \in DOMAIN after /\ k.start < i.start
      BY <1>1, <1>3
    <3>2. \A k \in DOMAIN rows : k.start < i.start => rows[k].count = after[k].count
      BY <1>1
    <3>. QED
      BY <3>1, <3>2, PastSame
  <2>2. after[i].count = rows[i].count /\ after[i].first = rows[i].first
    BY <1>1
  <2>. QED
    BY <1>2, <1>5, <2>1, <2>2, SoundSame
<1>6. RowsTyped(after)
  <2>1. ASSUME NEW i \in DOMAIN rows
        PROVE  /\ i.start \in Int /\ InOneDay(i.start)
               /\ after[i].count \in Nat
               /\ after[i] = [count |-> after[i].count, markers |-> after[i].markers,
                              first |-> after[i].first]
    BY <1>1 DEF RowsOK, RowsTyped
  <2>2. b.id \notin DOMAIN rows =>
               /\ b.id.start \in Int /\ InOneDay(b.id.start)
               /\ after[b.id].count \in Nat
               /\ after[b.id] = [count |-> after[b.id].count, markers |-> after[b.id].markers,
                                 first |-> after[b.id].first]
    BY <1>1, <1>4
  <2>. QED
    BY <1>1, <2>1, <2>2 DEF RowsTyped
<1>7. b.id \notin DOMAIN rows => Sound(after, late2, b.id, after[b.id].markers)
  <2>. SUFFICES ASSUME b.id \notin DOMAIN rows
                PROVE  Sound(after, late2, b.id, after[b.id].markers)
    OBVIOUS
  <2>. DEFINE t == b.id.start
              past == Past(after, t)
              new == DeriveHistoryMarkers(b.count, t, past, ProducedHistoryMarkers)
  <2>1. Past(after, t) = Past(rows, t)
    <3>1. \A k : k \in DOMAIN rows /\ k.start < t <=> k \in DOMAIN after /\ k.start < t
      BY <1>1, <1>4
    <3>2. \A k \in DOMAIN rows : k.start < t => rows[k].count = after[k].count
      BY <1>1
    <3>. QED
      BY <3>1, <3>2, PastSame
  <2>2. after[b.id] = row
    BY <1>1
  <2>3. /\ after[b.id].count = b.count
        /\ after[b.id].markers = b.markers \cup new
        /\ after[b.id].first = b.markers \cup new
    BY <2>1, <2>2 DEF MarkersOf
  <2>4. Sound(after, late2, b.id, b.markers \cup new)
    <3>. DEFINE n == after[b.id].count
    <3>1. /\ "start" \in ImplementedHistoryMarkers /\ "late_start" \in ImplementedHistoryMarkers
          /\ ProducedHistoryMarkers \subseteq ImplementedHistoryMarkers
      BY DEF ProducedHistoryMarkers, ImplementedHistoryMarkers
    <3>2. \A key \in ImplementedHistoryMarkers : Marker(key, t) \notin b.markers
      BY MarkerIs DEF BucketOK
    <3>3. /\ \A key : Marker(key, t) \in new
                        <=> key \in ProducedHistoryMarkers /\ Fires(key, b.count, t, History(past, t))
          /\ \A m \in new : m = Marker(m.key, m.ts)
      BY Derived
    <3>4. \A m \in b.markers : m = Marker(m.key, m.ts)
      BY DEF BucketOK
    <3>5. Fires("start", b.count, t, History(past, t)) => b.count >= StartMinDetections
      BY FiresIs DEF IsStart
    <3>6. Fires("late_start", b.count, t, History(past, t)) => Fires("start", b.count, t, History(past, t))
      BY <1>4, <1>6, PastIsOK, FiresIs, LateStartStarts
    <3>7. "start" \in ProducedHistoryMarkers
      BY DEF ProducedHistoryMarkers
    <3>8. n = b.count
      BY <2>3
    <3>. HIDE DEF new, past, t, n
    <3>9. t = b.id.start /\ past = Past(after, b.id.start) /\ n = after[b.id].count
      BY DEF t, past, n
    <3>. QED
      BY <2>3, <3>1, <3>2, <3>3, <3>4, <3>5, <3>6, <3>7, <3>8, <3>9 DEF Sound, new
  <2>. QED
    BY <2>3, <2>4
<1>8. \A i \in DOMAIN after : Sound(after, late2, i, after[i].markers)
  <2>1. ASSUME NEW i \in DOMAIN rows
        PROVE  Sound(after, late2, i, after[i].markers)
    <3>1. Sound(rows, late, i, rows[i].markers) /\ after[i].markers = rows[i].markers
      BY <1>1 DEF RowsOK
    <3>. QED
      BY <1>5, <3>1
  <2>. QED
    BY <1>1, <1>7, <2>1
<1>9. late2 \subseteq DOMAIN after /\ DOMAIN after \cap Images = {}
  BY <1>1, <1>2 DEF RowsOK
<1>. QED
  BY <1>5, <1>6, <1>8, <1>9 DEF RowsOK, after, late2

-----------------------------------------------------------------------------
(* What rederive_markers writes *)

LEMMA ApplyRows ==
  ASSUME NEW i \in DOMAIN table, RowsTyped(table), NEW seen, NEW proposed,
         NEW after, after = ApplyNewMarkers(i, seen, proposed)
  PROVE  /\ DOMAIN after = DOMAIN table
         /\ \A k \in DOMAIN table : k # i => after[k] = table[k]
         /\ after[i].count = table[i].count /\ after[i].first = table[i].first
         /\ proposed \subseteq seen => after[i].markers = table[i].markers
         /\ ~ (proposed \subseteq seen) => after[i].markers = seen \cup proposed
         /\ after[i] = [count |-> after[i].count, markers |-> after[i].markers,
                        first |-> after[i].first]
<1>. DEFINE row == table[i]
            new == [table EXCEPT ![i].markers = seen \cup proposed]
<1>1. row = [count |-> row.count, markers |-> row.markers, first |-> row.first]
  BY DEF RowsTyped
<1>2. /\ DOMAIN new = DOMAIN table
      /\ \A k \in DOMAIN table : k # i => new[k] = table[k]
      /\ new[i] = [row EXCEPT !.markers = seen \cup proposed]
  OBVIOUS
<1>3. new[i] = [count |-> row.count, markers |-> seen \cup proposed, first |-> row.first]
  <2>. HIDE DEF row, new
  <2>. QED
    BY <1>1, <1>2
<1>4. ApplyNewMarkers(i, seen, proposed) = IF proposed \subseteq seen THEN table ELSE new
  BY DEF ApplyNewMarkers
<1>. HIDE DEF new
<1>5. CASE proposed \subseteq seen
  BY <1>1, <1>4, <1>5
<1>6. CASE ~ (proposed \subseteq seen)
  <2>1. after = new
    BY <1>4, <1>6
  <2>. QED
    BY <1>2, <1>3, <1>6, <2>1
<1>. QED
  BY <1>5, <1>6

LEMMA ApplySound ==
  ASSUME RowsOK(table, overtaken), NEW i \in DOMAIN table,
         NEW seen, Sound(table, overtaken, i, seen),
         NEW produce \in {ProducedHistoryMarkers, ImplementedHistoryMarkers},
         NEW after,
         after = ApplyNewMarkers(i, seen,
                   DeriveHistoryMarkers(table[i].count, i.start, Past(table, i.start), produce))
  PROVE  /\ \A k \in DOMAIN table : \A c :
              Sound(table, overtaken, k, c) => Sound(after, overtaken, k, c)
         /\ RowsOK(after, overtaken)
         /\ DOMAIN after = DOMAIN table
         /\ \A k \in DOMAIN table : after[k].first = table[k].first
         /\ \A k \in DOMAIN table : k # i => after[k].markers = table[k].markers
         /\ table[i].markers \subseteq seen => table[i].markers \subseteq after[i].markers
<1>. DEFINE proposed == DeriveHistoryMarkers(table[i].count, i.start, Past(table, i.start), produce)
<1>0. RowsTyped(table)
  BY DEF RowsOK
<1>1. /\ DOMAIN after = DOMAIN table
      /\ \A k \in DOMAIN table : k # i => after[k] = table[k]
      /\ after[i].count = table[i].count /\ after[i].first = table[i].first
      /\ proposed \subseteq seen => after[i].markers = table[i].markers
      /\ ~ (proposed \subseteq seen) => after[i].markers = seen \cup proposed
      /\ after[i] = [count |-> after[i].count, markers |-> after[i].markers, first |-> after[i].first]
  <2>. HIDE DEF proposed
  <2>1. after = ApplyNewMarkers(i, seen, proposed)
    BY DEF proposed
  <2>. QED
    BY <1>0, <2>1, ApplyRows
<1>2. \A k \in DOMAIN table : after[k].count = table[k].count /\ after[k].first = table[k].first
  BY <1>1
<1>3. \A t : Past(after, t) = Past(table, t)
  BY <1>1, <1>2, PastSame
<1>4. \A k \in DOMAIN table : \A c :
        Sound(table, overtaken, k, c) => Sound(after, overtaken, k, c)
  BY <1>2, <1>3, SoundSame
<1>5. RowsTyped(after)
  BY <1>0, <1>1 DEF RowsTyped
<1>6. Sound(after, overtaken, i, after[i].markers)
  <2>1. Sound(table, overtaken, i, seen \cup proposed)
    <3>1. /\ table[i].first \subseteq seen
          /\ \A m \in seen : m = Marker(m.key, m.ts)
          /\ i \notin overtaken => \A key \in ImplementedHistoryMarkers :
               Marker(key, i.start) \in seen
                 => Fires(key, table[i].count, i.start, History(Past(table, i.start), i.start))
          /\ Marker("start", i.start) \in seen => table[i].count >= StartMinDetections
          /\ Marker("late_start", i.start) \in seen => Marker("start", i.start) \in seen
      BY DEF Sound
    <3>. HIDE DEF proposed
    <3>. QED
      BY <1>0, <3>1, DerivedIsSound DEF proposed
  <2>2. Sound(table, overtaken, i, table[i].markers)
    BY DEF RowsOK
  <2>. HIDE DEF proposed
  <2>. QED
    BY <1>1, <1>4, <2>1, <2>2
<1>7. \A k \in DOMAIN after : Sound(after, overtaken, k, after[k].markers)
  <2>. SUFFICES ASSUME NEW k \in DOMAIN table, k # i
                PROVE  Sound(after, overtaken, k, after[k].markers)
    BY <1>1, <1>6
  <2>1. Sound(table, overtaken, k, table[k].markers) /\ after[k] = table[k]
    BY <1>1 DEF RowsOK
  <2>. QED
    BY <1>4, <2>1
<1>8. /\ \A k \in DOMAIN table : k # i => after[k].markers = table[k].markers
      /\ table[i].markers \subseteq seen => table[i].markers \subseteq after[i].markers
  <2>. HIDE DEF proposed
  <2>. QED
    BY <1>1
<1>. QED
  BY <1>1, <1>2, <1>4, <1>5, <1>7, <1>8 DEF RowsOK

-----------------------------------------------------------------------------
(* The rows and the scripts *)

RowInv ==
  /\ scenario \in Scenarios
  /\ position \in Nat
  /\ RowsOK(table, overtaken)

\* What a script has loaded is sound, however long ago that was.
ScriptInv ==
  /\ rederiving = [r \in Scripts |-> rederiving[r]]
  /\ \A r \in Scripts :
       /\ rederiving[r] = [todo |-> rederiving[r].todo, seen |-> rederiving[r].seen,
                           produce |-> rederiving[r].produce]
       /\ rederiving[r].todo \subseteq DOMAIN table
       /\ rederiving[r].todo # {} =>
            rederiving[r].produce \in {ProducedHistoryMarkers, ImplementedHistoryMarkers}
       /\ \A i \in rederiving[r].todo : Sound(table, overtaken, i, rederiving[r].seen[i])

\* The steps that matter to the rows: a bucket is ingested, or a script runs.
Ingests(b) ==
  /\ BucketOK(b) /\ b.id \notin Images
  /\ IngestRow(b)
  /\ scenario' = scenario /\ position' \in {position, position + 1}
  /\ rederiving' = rederiving

LEMMA RowSteps ==
  ASSUME RowInv, [Next]_vars
  PROVE  \/ \E b : Ingests(b)
         \/ \E r \in Scripts : Rederive(r) /\ UNCHANGED <<scenario, position, overtaken>>
         \/ UNCHANGED <<scenario, position, table, overtaken, rederiving>>
<1>1. ASSUME ReplayBucket
      PROVE  \E b : Ingests(b)
  <2>. DEFINE b == ReplayOf(scenario)[position]
  <2>1. BucketOK(b) /\ b.id \in BucketIds
    BY <1>1, ReplayOK DEF ReplayBucket, Replaying, RowInv, BucketIds
  <2>2. b.id \notin Images
    BY <2>1, SignalsAssumption
  <2>3. /\ IngestRow(b) /\ scenario' = scenario /\ position' = position + 1
        /\ rederiving' = rederiving
    BY <1>1 DEF ReplayBucket
  <2>. HIDE DEF b
  <2>. QED
    BY <2>1, <2>2, <2>3 DEF Ingests
<1>2. ASSUME NEW d \in Deliveries, IngestBucket(d)
      PROVE  \E b : Ingests(b)
  <2>. DEFINE b == Transform(d.frags, d.start)
  <2>1. BucketOK(b) /\ b.id \in BucketIds
    BY DeliveryOK DEF BucketIds
  <2>2. b.id \notin Images
    BY <2>1, SignalsAssumption
  <2>3. /\ IngestRow(b) /\ scenario' = scenario /\ position' = position
        /\ rederiving' = rederiving
    BY <1>2 DEF IngestBucket
  <2>. HIDE DEF b
  <2>. QED
    BY <2>1, <2>2, <2>3 DEF Ingests
<1>3. ASSUME NEW r \in Scripts, Rederive(r)
      PROVE  Rederive(r) /\ UNCHANGED <<scenario, position, overtaken>>
  BY <1>3 DEF Rederive, LoadBuckets, RederiveBucket, StopRederiving, buckets
<1>4. ASSUME NEW i \in Images, ReceiveImage(i) \/ PruneImage(i)
      PROVE  UNCHANGED <<scenario, position, table, overtaken, rederiving>>
  BY <1>4 DEF ReceiveImage, PruneImage, buckets
<1>5. ASSUME NEW w \in Workers, Work(w)
      PROVE  UNCHANGED <<scenario, position, table, overtaken, rederiving>>
  BY <1>5 DEF Work, Claim, Produce, Release, RollBack, buckets
<1>6. ASSUME NEW s, Exhaust(s) \/ BackfillEvents(s)
      PROVE  UNCHANGED <<scenario, position, table, overtaken, rederiving>>
  BY <1>6 DEF Exhaust, BackfillEvents, buckets
<1>7. CASE UNCHANGED vars
  BY <1>7 DEF vars, buckets
<1>8. CASE ReplayBucket
  BY <1>1, <1>8
<1>9. CASE AfterReplay
  <2>1. CASE \E d \in Deliveries : IngestBucket(d)
    BY <1>2, <2>1
  <2>2. CASE \E i \in Images : ReceiveImage(i) \/ PruneImage(i)
    BY <1>4, <2>2
  <2>3. CASE \E w \in Workers : Work(w)
    BY <1>5, <2>3
  <2>4. CASE \E s \in DOMAIN job : Exhaust(s)
    BY <1>6, <2>4
  <2>5. CASE \E r \in Scripts : Rederive(r)
    BY <1>3, <2>5
  <2>6. CASE \E s \in images \cup DOMAIN table : BackfillEvents(s)
    BY <1>6, <2>6
  <2>. QED
    BY <1>9, <2>1, <2>2, <2>3, <2>4, <2>5, <2>6 DEF AfterReplay
<1>. QED
  BY <1>7, <1>8, <1>9 DEF Next

LEMMA RowInit ==
  ASSUME Init
  PROVE  RowInv /\ ScriptInv
<1>1. DOMAIN table = {}
  BY DEF Init
<1>2. RowInv
  BY <1>1 DEF Init, RowInv, RowsOK, RowsTyped
<1>3. ScriptInv
  BY DEF Init, ScriptInv, NoRun
<1>. QED
  BY <1>2, <1>3

LEMMA IngestStep ==
  ASSUME RowInv, ScriptInv, NEW b, Ingests(b)
  PROVE  RowInv' /\ ScriptInv'
<1>1. table' = Ingested(table, b) /\ overtaken' = Overtaken(table, overtaken, b)
  BY DEF Ingests, IngestRow, Overtaken
<1>2. /\ \A i \in DOMAIN table : \A c :
           Sound(table, overtaken, i, c) => Sound(table', overtaken', i, c)
      /\ RowsOK(table', overtaken')
  BY <1>1, IngestSound DEF RowInv, Ingests
<1>3. DOMAIN table \subseteq DOMAIN table'
  BY <1>1, IngestedRows
<1>4. RowInv'
  BY <1>2 DEF RowInv, Ingests
<1>5. ScriptInv'
  BY <1>2, <1>3 DEF ScriptInv, Ingests
<1>. QED
  BY <1>4, <1>5

LEMMA LoadStep ==
  ASSUME RowInv, ScriptInv, NEW r \in Scripts, LoadBuckets(r),
         UNCHANGED <<scenario, position, overtaken>>
  PROVE  RowInv' /\ ScriptInv'
<1>. DEFINE ids == {i \in DOMAIN table : i.start >= RederiveFrom}
            seen == [i \in ids |-> table[i].markers]
<1>1. PICK produce \in {ProducedHistoryMarkers, ImplementedHistoryMarkers} :
        rederiving' = [rederiving EXCEPT ![r] = [todo |-> ids, seen |-> seen, produce |-> produce]]
  BY DEF LoadBuckets
<1>2. table' = table /\ overtaken' = overtaken
  BY DEF LoadBuckets, buckets
<1>3. \A i \in ids : Sound(table, overtaken, i, seen[i])
  BY DEF RowInv, RowsOK
<1>4. ids \subseteq DOMAIN table
  OBVIOUS
<1>. HIDE DEF ids, seen
<1>5. /\ rederiving' = [q \in Scripts |-> rederiving'[q]]
      /\ rederiving'[r] = [todo |-> ids, seen |-> seen, produce |-> produce]
      /\ \A q \in Scripts : q # r => rederiving'[q] = rederiving[q]
  BY <1>1 DEF ScriptInv
<1>6. RowInv'
  BY <1>2 DEF RowInv
<1>7. ASSUME NEW q \in Scripts
      PROVE  /\ rederiving'[q] = [todo |-> rederiving'[q].todo, seen |-> rederiving'[q].seen,
                                 produce |-> rederiving'[q].produce]
             /\ rederiving'[q].todo \subseteq DOMAIN table'
             /\ rederiving'[q].todo # {} =>
                  rederiving'[q].produce \in {ProducedHistoryMarkers, ImplementedHistoryMarkers}
             /\ \A i \in rederiving'[q].todo : Sound(table', overtaken', i, rederiving'[q].seen[i])
  <2>1. CASE q = r
    BY <1>2, <1>3, <1>4, <1>5, <2>1
  <2>2. CASE q # r
    BY <1>2, <1>5, <2>2 DEF ScriptInv
  <2>. QED
    BY <2>1, <2>2
<1>. QED
  BY <1>5, <1>6, <1>7 DEF ScriptInv

LEMMA RederiveStep ==
  ASSUME RowInv, ScriptInv, NEW r \in Scripts, NEW i \in rederiving[r].todo, RederiveBucket(r, i)
  PROVE  RowInv' /\ ScriptInv'
<1>. DEFINE run == rederiving[r]
            new == DeriveHistoryMarkers(table[i].count, i.start, Past(table, i.start), run.produce)
<1>1. i \in DOMAIN table /\ Sound(table, overtaken, i, run.seen[i])
      /\ run.produce \in {ProducedHistoryMarkers, ImplementedHistoryMarkers}
  BY DEF ScriptInv
<1>2. /\ table' = ApplyNewMarkers(i, run.seen[i], new)
      /\ scenario' = scenario /\ position' = position /\ overtaken' = overtaken
  BY DEF RederiveBucket
<1>3. /\ \A k \in DOMAIN table : \A c :
           Sound(table, overtaken, k, c) => Sound(table', overtaken, k, c)
      /\ RowsOK(table', overtaken)
      /\ DOMAIN table' = DOMAIN table
  BY <1>1, <1>2, ApplySound DEF RowInv
<1>5. /\ rederiving' = [q \in Scripts |-> rederiving'[q]]
      /\ rederiving'[r] = NoRun \/ rederiving'[r] = [run EXCEPT !.todo = @ \ {i}]
      /\ \A q \in Scripts : q # r => rederiving'[q] = rederiving[q]
  <2>1. rederiving' = [rederiving EXCEPT ![r] = WithoutRow(run, i)]
    BY DEF RederiveBucket
  <2>2. WithoutRow(run, i) = NoRun \/ WithoutRow(run, i) = [run EXCEPT !.todo = @ \ {i}]
    BY DEF WithoutRow
  <2>. QED
    BY <2>1, <2>2 DEF ScriptInv
<1>6. \/ rederiving'[r] = NoRun
      \/ rederiving'[r] = [todo |-> run.todo \ {i}, seen |-> run.seen, produce |-> run.produce]
  BY <1>5 DEF ScriptInv
<1>7. RowInv'
  BY <1>2, <1>3 DEF RowInv
<1>8. ASSUME NEW q \in Scripts
      PROVE  /\ rederiving'[q] = [todo |-> rederiving'[q].todo, seen |-> rederiving'[q].seen,
                                 produce |-> rederiving'[q].produce]
             /\ rederiving'[q].todo \subseteq DOMAIN table'
             /\ rederiving'[q].todo # {} =>
                  rederiving'[q].produce \in {ProducedHistoryMarkers, ImplementedHistoryMarkers}
             /\ \A k \in rederiving'[q].todo : Sound(table', overtaken', k, rederiving'[q].seen[k])
  <2>0. /\ rederiving[q] = [todo |-> rederiving[q].todo, seen |-> rederiving[q].seen,
                            produce |-> rederiving[q].produce]
        /\ rederiving[q].todo \subseteq DOMAIN table'
        /\ rederiving[q].todo # {} =>
             rederiving[q].produce \in {ProducedHistoryMarkers, ImplementedHistoryMarkers}
        /\ \A k \in rederiving[q].todo : Sound(table', overtaken', k, rederiving[q].seen[k])
    BY <1>2, <1>3 DEF ScriptInv
  <2>1. CASE q = r
    BY <1>6, <2>0, <2>1 DEF NoRun
  <2>2. CASE q # r
    BY <1>5, <2>0, <2>2
  <2>. QED
    BY <2>1, <2>2
<1>. QED
  BY <1>5, <1>7, <1>8 DEF ScriptInv

LEMMA StopStep ==
  ASSUME RowInv, ScriptInv, NEW r \in Scripts, StopRederiving(r)
  PROVE  RowInv' /\ ScriptInv'
<1>1. /\ scenario' = scenario /\ position' = position /\ table' = table /\ overtaken' = overtaken
      /\ rederiving' = [rederiving EXCEPT ![r] = NoRun]
  BY DEF StopRederiving, buckets
<1>2. RowInv'
  BY <1>1 DEF RowInv
<1>3. /\ rederiving' = [q \in Scripts |-> rederiving'[q]]
      /\ rederiving'[r] = NoRun
      /\ \A q \in Scripts : q # r => rederiving'[q] = rederiving[q]
  BY <1>1 DEF ScriptInv
<1>4. ScriptInv'
  BY <1>1, <1>3 DEF ScriptInv, NoRun
<1>. QED
  BY <1>2, <1>4

LEMMA RowStep ==
  ASSUME RowInv, ScriptInv, [Next]_vars
  PROVE  RowInv' /\ ScriptInv'
<1>1. ASSUME NEW b, Ingests(b)
      PROVE  RowInv' /\ ScriptInv'
  BY <1>1, IngestStep
<1>2. ASSUME NEW r \in Scripts, Rederive(r), UNCHANGED <<scenario, position, overtaken>>
      PROVE  RowInv' /\ ScriptInv'
  BY <1>2, LoadStep, RederiveStep, StopStep DEF Rederive
<1>3. ASSUME UNCHANGED <<scenario, position, table, overtaken, rederiving>>
      PROVE  RowInv' /\ ScriptInv'
  BY <1>3 DEF RowInv, ScriptInv
<1>. QED
  BY <1>1, <1>2, <1>3, RowSteps

LEMMA RowsCorrect == Spec => [](RowInv /\ ScriptInv)
<1>1. Init => RowInv /\ ScriptInv
  BY RowInit
<1>2. RowInv /\ ScriptInv /\ [Next]_vars => (RowInv /\ ScriptInv)'
  BY RowStep
<1>. QED
  BY <1>1, <1>2, PTL DEF Spec

-----------------------------------------------------------------------------
(***************************************************************************)
(* What ingest_bucket derived is what a later derivation finds, for every  *)
(* row no earlier window was ingested after: derive_history_markers looks  *)
(* at the strict past only (history.py), and neither a replay's own        *)
(* markers nor those that rederive_markers adds get in its way.            *)
(***************************************************************************)
THEOREM Rederivable == Spec => []RederiveAgrees
<1>1. RowInv => RederiveAgrees
  <2>. SUFFICES ASSUME RowInv, NEW i \in DOMAIN table \ overtaken
                PROVE  {m \in table[i].markers : m.key \in ProducedHistoryMarkers /\ m.ts = i.start}
                         = DeriveHistoryMarkers(table[i].count, i.start, Past(table, i.start),
                                                ProducedHistoryMarkers)
    BY DEF RederiveAgrees
  <2>. DEFINE t == i.start
              n == table[i].count
              past == Past(table, t)
              marked == table[i].markers
              new == DeriveHistoryMarkers(n, t, past, ProducedHistoryMarkers)
  <2>1. Sound(table, overtaken, i, marked)
    BY DEF RowInv, RowsOK
  <2>2. /\ \A m \in marked : m = Marker(m.key, m.ts)
        /\ \A key \in ImplementedHistoryMarkers :
             Marker(key, t) \in marked => Fires(key, n, t, History(past, t))
        /\ new \subseteq marked
    BY <2>1 DEF Sound
  <2>3. /\ \A key : Marker(key, t) \in new
                      <=> key \in ProducedHistoryMarkers /\ Fires(key, n, t, History(past, t))
        /\ \A m \in new : m = Marker(m.key, m.ts) /\ m.ts = t /\ m.key \in ProducedHistoryMarkers
    BY Derived
  <2>4. ProducedHistoryMarkers \subseteq ImplementedHistoryMarkers
    BY DEF ImplementedHistoryMarkers
  <2>. HIDE DEF new, marked, past, n, t
  <2>5. {m \in marked : m.key \in ProducedHistoryMarkers /\ m.ts = t} = new
    <3>1. \A m \in marked : m.key \in ProducedHistoryMarkers /\ m.ts = t => m \in new
      BY <2>2, <2>3, <2>4
    <3>. QED
      BY <2>2, <2>3, <3>1
  <2>. QED
    BY <2>5 DEF new, marked, past, n, t
<1>. QED
  BY <1>1, RowsCorrect, PTL

(***************************************************************************)
(* A day starts once, however its windows come in: of two `start` windows  *)
(* of a day the later one was there before the earlier one, when its rule  *)
(* could not see it.                                                       *)
(***************************************************************************)
THEOREM OneStart == Spec => []StartsOncePerDay
<1>1. RowInv => StartsOncePerDay
  <2>. SUFFICES ASSUME RowInv, NEW i \in DOMAIN table, NEW k \in DOMAIN table,
                       i.start < k.start, DayOf(i.start) = DayOf(k.start),
                       Marker("start", i.start) \in table[i].markers,
                       Marker("start", k.start) \in table[k].markers,
                       k \notin overtaken
                PROVE  FALSE
    BY DEF StartsOncePerDay
  <2>. DEFINE past == Past(table, k.start)
  <2>1. Sound(table, overtaken, i, table[i].markers) /\ Sound(table, overtaken, k, table[k].markers)
    BY DEF RowInv, RowsOK
  <2>2. table[i].count \in Nat /\ table[i].count >= 5
    BY <2>1 DEF Sound, StartMinDetections, RowInv, RowsOK, RowsTyped
  <2>3. "start" \in ImplementedHistoryMarkers
    BY DEF ImplementedHistoryMarkers, ProducedHistoryMarkers
  <2>4. Fires("start", table[k].count, k.start, History(past, k.start))
    BY <2>1, <2>3 DEF Sound
  <2>5. History(past, k.start).activeToday = {}
    BY <2>4, FiresIs DEF IsStart
  <2>6. ActiveOn(past, DayOf(k.start)) = {}
    BY <2>5 DEF History
  <2>7. i \in DOMAIN past /\ past[i] = table[i].count
    BY DEF Past
  <2>. HIDE DEF past
  <2>8. i \in Active(past)
    BY <2>2, <2>7 DEF Active, QuietFloorDetections
  <2>. QED
    BY <2>6, <2>8 DEF ActiveOn
<1>. QED
  BY <1>1, RowsCorrect, PTL

(***************************************************************************)
(* A late start is a start, bucket by bucket, in the table and for any     *)
(* number of scripts: no activity today and two hours into the day leave   *)
(* two quiet hours, as no window runs past midnight.                       *)
(***************************************************************************)
THEOREM LateStarts == Spec => []LateStartIsStart
<1>1. RowInv => LateStartIsStart
  BY DEF RowInv, RowsOK, Sound, LateStartIsStart
<1>. QED
  BY <1>1, RowsCorrect, PTL

-----------------------------------------------------------------------------
(* Jobs and events *)

FirstEvents(rows, s) ==
  IF s \in Images THEN ImageEvents(s) ELSE BucketEvents(s, rows[s].first)

\* A job that is done, or a worker that has its events, has those of the
\* markers the bucket came with.
JobInv ==
  /\ inputs \in 0 .. MaxInputs[scenario]
  /\ images \subseteq Images
  /\ DOMAIN job \subseteq DOMAIN table \cup Images
  /\ job \in [DOMAIN job -> JobState]
  /\ \A s \in DOMAIN job : job[s] = "succeeded" => FirstEvents(table, s) \subseteq events

ItemOK(rows, jobs, item) ==
  /\ item = [source |-> item.source, phase |-> item.phase, made |-> item.made]
  /\ item.phase \in {"idle", "claimed", "executed", "missing"}
  /\ item.phase # "idle" => item.source \in jobs
  /\ item.phase = "executed" => FirstEvents(rows, item.source) \subseteq item.made

WorkInv ==
  /\ work = [w \in Workers |-> work[w]]
  /\ \A w \in Workers : ItemOK(table, DOMAIN job, work[w])

\* No step loses a row, or what it was ingested with.
TableKept ==
  /\ DOMAIN table \subseteq DOMAIN table'
  /\ \A i \in DOMAIN table : table'[i].first = table[i].first

\* What a script that found something writes.
LEMMA RederivedTable ==
  ASSUME RowInv, ScriptInv, NEW r \in Scripts, NEW i \in rederiving[r].todo, RederiveBucket(r, i)
  PROVE  /\ i \in DOMAIN table
         /\ DOMAIN table' = DOMAIN table
         /\ \A k \in DOMAIN table : table'[k].first = table[k].first
         /\ \A k \in DOMAIN table : k # i => table'[k].markers = table[k].markers
         /\ table[i].markers \subseteq rederiving[r].seen[i]
              => table[i].markers \subseteq table'[i].markers
<1>1. /\ i \in DOMAIN table /\ Sound(table, overtaken, i, rederiving[r].seen[i])
      /\ rederiving[r].produce \in {ProducedHistoryMarkers, ImplementedHistoryMarkers}
  BY DEF ScriptInv
<1>2. table' = ApplyNewMarkers(i, rederiving[r].seen[i],
                 DeriveHistoryMarkers(table[i].count, i.start, Past(table, i.start),
                                      rederiving[r].produce))
  BY DEF RederiveBucket
<1>. QED
  BY <1>1, <1>2, ApplySound DEF RowInv

LEMMA StepKeepsTable ==
  ASSUME RowInv, ScriptInv, [Next]_vars
  PROVE  TableKept /\ scenario' = scenario
<1>1. ASSUME NEW b, Ingests(b)
      PROVE  TableKept /\ scenario' = scenario
  <2>1. table' = Ingested(table, b) /\ scenario' = scenario
    BY <1>1 DEF Ingests, IngestRow
  <2>2. DOMAIN table \subseteq DOMAIN table' /\ \A i \in DOMAIN table : table'[i] = table[i]
    BY <2>1, IngestedRows
  <2>. QED
    BY <2>1, <2>2 DEF TableKept
<1>2. ASSUME NEW r \in Scripts, Rederive(r)
      PROVE  TableKept
  <2>1. CASE LoadBuckets(r) \/ StopRederiving(r)
    BY <2>1 DEF LoadBuckets, StopRederiving, buckets, TableKept
  <2>2. ASSUME NEW i \in rederiving[r].todo, RederiveBucket(r, i)
        PROVE  TableKept
    BY <2>2, RederivedTable DEF TableKept
  <2>. QED
    BY <1>2, <2>1, <2>2 DEF Rederive
<1>3. ASSUME UNCHANGED <<scenario, position, table, overtaken, rederiving>>
      PROVE  TableKept /\ scenario' = scenario
  BY <1>3 DEF TableKept
<1>. QED
  BY <1>1, <1>2, <1>3, RowSteps

LEMMA FirstEventsKept ==
  ASSUME TableKept
  PROVE  \A s \in DOMAIN table \cup Images : FirstEvents(table', s) = FirstEvents(table, s)
  BY DEF TableKept, FirstEvents

LEMMA JobInit ==
  ASSUME Init
  PROVE  JobInv /\ WorkInv
<1>1. job = << >> /\ DOMAIN job = {} /\ table = << >> /\ DOMAIN table = {}
  BY DEF Init
<1>2. MaxInputs[scenario] \in Nat
  BY SignalsAssumption DEF Init
<1>3. JobInv
  BY <1>1, <1>2 DEF Init, JobInv
<1>4. WorkInv
  BY DEF Init, WorkInv, ItemOK, Idle
<1>. QED
  BY <1>3, <1>4

LEMMA WorkKept ==
  ASSUME RowInv, JobInv, WorkInv, TableKept, UNCHANGED work, DOMAIN job \subseteq DOMAIN job'
  PROVE  WorkInv'
  BY FirstEventsKept DEF WorkInv, ItemOK, JobInv

LEMMA AddJobIs ==
  ASSUME NEW s, NEW as, AddJob(s, as)
  PROVE  /\ DOMAIN job' = DOMAIN job \cup {s}
         /\ job' \in [DOMAIN job' -> {job[k] : k \in DOMAIN job} \cup {as}]
         /\ \A k \in DOMAIN job : job'[k] = job[k]
         /\ s \notin DOMAIN job => job'[s] = as
<1>1. job' = [i \in DOMAIN job \cup {s} |-> IF i \in DOMAIN job THEN job[i] ELSE as]
  BY DEF AddJob
<1>. QED
  BY <1>1

\* What is left to show of an action that adds or settles a job.
LEMMA JobsKept ==
  ASSUME JobInv, TableKept, scenario' = scenario, events \subseteq events',
         inputs' \in 0 .. MaxInputs[scenario], images' \subseteq Images,
         DOMAIN job' \subseteq DOMAIN table' \cup Images,
         job' \in [DOMAIN job' -> JobState],
         \A s \in DOMAIN job' : job'[s] = "succeeded" =>
           \/ s \in DOMAIN job /\ job[s] = "succeeded"
           \/ FirstEvents(table', s) \subseteq events'
  PROVE  JobInv'
<1>1. \A s \in DOMAIN job : job[s] = "succeeded" => FirstEvents(table', s) \subseteq events'
  BY FirstEventsKept DEF JobInv
<1>. QED
  BY <1>1 DEF JobInv

LEMMA AddJobStep ==
  ASSUME JobInv, WorkInv, RowInv, TableKept, scenario' = scenario, work' = work,
         events \subseteq events', inputs' \in 0 .. MaxInputs[scenario], images' \subseteq Images,
         NEW s \in DOMAIN table' \cup Images, NEW as \in JobState,
         as = "succeeded" => FirstEvents(table', s) \subseteq events',
         AddJob(s, as) \/ UNCHANGED job
  PROVE  JobInv' /\ WorkInv'
<1>1. CASE AddJob(s, as)
  <2>1. /\ DOMAIN job' = DOMAIN job \cup {s}
        /\ \A k \in DOMAIN job : job'[k] = job[k]
        /\ s \notin DOMAIN job => job'[s] = as
    BY <1>1, AddJobIs
  <2>2. job' \in [DOMAIN job' -> JobState]
    <3>1. job' \in [DOMAIN job' -> {job[k] : k \in DOMAIN job} \cup {as}]
      BY <1>1, AddJobIs
    <3>2. \A k \in DOMAIN job : job[k] \in JobState
      BY DEF JobInv
    <3>3. \A k \in DOMAIN job' : job'[k] \in JobState
      BY <2>1, <3>2
    <3>. QED
      BY <3>1, <3>3
  <2>3. DOMAIN job' \subseteq DOMAIN table' \cup Images
    BY <2>1 DEF JobInv, TableKept
  <2>4. ASSUME NEW k \in DOMAIN job', job'[k] = "succeeded"
        PROVE  \/ k \in DOMAIN job /\ job[k] = "succeeded"
               \/ FirstEvents(table', k) \subseteq events'
    <3>1. CASE k \in DOMAIN job
      BY <2>1, <2>4, <3>1
    <3>2. CASE k \notin DOMAIN job
      BY <2>1, <2>4, <3>2
    <3>. QED
      BY <3>1, <3>2
  <2>5. JobInv'
    BY <2>2, <2>3, <2>4, JobsKept
  <2>6. WorkInv'
    BY <2>1, WorkKept
  <2>. QED
    BY <2>5, <2>6
<1>2. CASE UNCHANGED job
  <2>1. JobInv'
    BY <1>2, JobsKept DEF JobInv, TableKept
  <2>2. WorkInv'
    BY <1>2, WorkKept
  <2>. QED
    BY <2>1, <2>2
<1>. QED
  BY <1>1, <1>2

\* The buckets and images that come in.
LEMMA InputStep ==
  ASSUME RowInv, RowInv', JobInv, WorkInv, TableKept, scenario' = scenario,
         \/ ReplayBucket
         \/ \E d \in Deliveries : IngestBucket(d)
         \/ \E i \in Images : ReceiveImage(i)
  PROVE  JobInv' /\ WorkInv'
<1>0. MaxInputs[scenario] \in Nat /\ "open" \in JobState /\ "succeeded" \in JobState
  BY SignalsAssumption DEF RowInv, JobState
<1>1. CASE ReplayBucket
  <2>0. PICK b : b = ReplayOf(scenario)[position]
    OBVIOUS
  <2>. DEFINE made == BucketEvents(b.id, table'[b.id].markers)
  <2>1. /\ IngestRow(b) /\ events' = events \cup made
        /\ AddJob(b.id, "succeeded") \/ UNCHANGED job
        /\ UNCHANGED <<inputs, images, work>>
    BY <1>1, <2>0 DEF ReplayBucket
  <2>2. b.id \in DOMAIN table'
    BY <2>1, IngestedRows DEF IngestRow
  <2>3. b.id \notin Images /\ table'[b.id].first \subseteq table'[b.id].markers
    BY <2>2 DEF RowInv, RowsOK, Sound
  <2>4. FirstEvents(table', b.id) \subseteq made
    BY <2>3 DEF FirstEvents, BucketEvents
  <2>5. FirstEvents(table', b.id) \subseteq events' /\ events \subseteq events'
    BY <2>1, <2>4
  <2>6. inputs' \in 0 .. MaxInputs[scenario] /\ images' \subseteq Images
    BY <2>1 DEF JobInv
  <2>. HIDE DEF made
  <2>. QED
    BY <1>0, <2>1, <2>2, <2>5, <2>6, AddJobStep
<1>2. ASSUME NEW d \in Deliveries, IngestBucket(d)
      PROVE  JobInv' /\ WorkInv'
  <2>. DEFINE b == Transform(d.frags, d.start)
  <2>1. /\ IngestRow(b) /\ inputs < MaxInputs[scenario] /\ inputs' = inputs + 1
        /\ AddJob(b.id, "open") \/ UNCHANGED job
        /\ UNCHANGED <<events, images, work>>
    BY <1>2 DEF IngestBucket
  <2>2. b.id \in DOMAIN table'
    <3>1. table' = Ingested(table, b)
      BY <2>1 DEF IngestRow
    <3>. HIDE DEF b
    <3>. QED
      BY <3>1, IngestedRows
  <2>3. inputs' \in 0 .. MaxInputs[scenario] /\ images' \subseteq Images /\ events \subseteq events'
    BY <1>0, <2>1 DEF JobInv
  <2>. HIDE DEF b
  <2>. QED
    BY <1>0, <2>1, <2>2, <2>3, AddJobStep
<1>3. ASSUME NEW i \in Images, ReceiveImage(i)
      PROVE  JobInv' /\ WorkInv'
  <2>1. /\ inputs < MaxInputs[scenario] /\ inputs' = inputs + 1
        /\ images' = images \cup {i}
        /\ AddJob(i, "open") \/ UNCHANGED job
        /\ UNCHANGED <<events, work>>
    BY <1>3 DEF ReceiveImage
  <2>2. inputs' \in 0 .. MaxInputs[scenario] /\ images' \subseteq Images /\ events \subseteq events'
    BY <1>0, <2>1 DEF JobInv
  <2>. QED
    BY <1>0, <2>1, <2>2, AddJobStep
<1>. QED
  BY <1>1, <1>2, <1>3

\* The event producer.
LEMMA WorkerStep ==
  ASSUME JobInv, WorkInv, RowInv, TableKept, scenario' = scenario, NEW w \in Workers, Work(w)
  PROVE  JobInv' /\ WorkInv'
<1>0. /\ images' = images /\ inputs' = inputs /\ table' = table
  BY DEF Work, Claim, Produce, Release, RollBack, buckets
<1>2. /\ inputs' \in 0 .. MaxInputs[scenario] /\ images' \subseteq Images
      /\ DOMAIN job \subseteq DOMAIN table' \cup Images
  BY <1>0 DEF JobInv
<1>. DEFINE item == work[w]
            s == item.source
\* What is left to show of a step of w.
<1>3. ASSUME work' = [v \in Workers |-> work'[v]],
             \A v \in Workers : v # w => work'[v] = work[v],
             ItemOK(table, DOMAIN job, work'[w]), DOMAIN job' = DOMAIN job
      PROVE  WorkInv'
  BY <1>0, <1>3 DEF WorkInv
<1>4. ItemOK(table, DOMAIN job, Idle)
  BY DEF Idle, ItemOK
<1>5. ASSUME UNCHANGED <<job, events>>
      PROVE  JobInv'
  BY <1>0, <1>2, <1>5 DEF JobInv
<1>6. CASE \E k \in DOMAIN job : Claim(w, k)
  <2>1. PICK k \in DOMAIN job : Claim(w, k)
    BY <1>6
  <2>. DEFINE new == [source |-> k, phase |-> "claimed", made |-> {}]
  <2>2. work' = [work EXCEPT ![w] = new] /\ UNCHANGED <<job, events>>
    BY <2>1 DEF Claim
  <2>3. ItemOK(table, DOMAIN job, new)
    BY DEF ItemOK
  <2>. HIDE DEF new
  <2>4. WorkInv'
    BY <1>3, <2>2, <2>3 DEF WorkInv
  <2>. QED
    BY <1>5, <2>2, <2>4
<1>7. CASE Produce(w)
  <2>1. /\ item = [source |-> item.source, phase |-> item.phase, made |-> item.made]
        /\ item.phase = "claimed" /\ s \in DOMAIN job /\ UNCHANGED <<job, events>>
    BY <1>7 DEF Produce, WorkInv, ItemOK
  <2>2. FirstEvents(table, s) \subseteq Produced(s)
    <3>1. CASE s \in Images
      BY <3>1 DEF FirstEvents, Produced
    <3>2. CASE s \notin Images
      <4>1. table[s].first \subseteq table[s].markers
        BY <2>1, <3>2 DEF JobInv, RowInv, RowsOK, Sound
      <4>. QED
        BY <3>2, <4>1 DEF FirstEvents, Produced, BucketEvents
    <3>. QED
      BY <3>1, <3>2
  <2>. DEFINE missing == s \in Images \ images
              phase == IF missing THEN "missing" ELSE "executed"
              made == IF missing THEN item.made ELSE Produced(s)
  <2>3. /\ phase \in {"missing", "executed"}
        /\ phase = "executed" => made = Produced(s)
        /\ work' = [work EXCEPT ![w] = [source |-> s, phase |-> phase, made |-> made]]
    <3>1. CASE missing
      <4>1. work' = [work EXCEPT ![w].phase = "missing"]
        BY <1>7, <3>1 DEF Produce
      <4>2. [item EXCEPT !.phase = "missing"]
              = [source |-> s, phase |-> "missing", made |-> item.made]
        BY <2>1
      <4>3. work' = [work EXCEPT ![w] = [item EXCEPT !.phase = "missing"]]
        BY <4>1
      <4>. QED
        BY <3>1, <4>2, <4>3
    <3>2. CASE ~ missing
      BY <1>7, <3>2 DEF Produce
    <3>. QED
      BY <3>1, <3>2
  <2>. HIDE DEF phase, made
  <2>. DEFINE new == [source |-> s, phase |-> phase, made |-> made]
  <2>4. ItemOK(table, DOMAIN job, new)
    BY <2>1, <2>2, <2>3 DEF ItemOK
  <2>. HIDE DEF new
  <2>5. WorkInv'
    BY <1>3, <2>1, <2>3, <2>4 DEF WorkInv, new
  <2>. QED
    BY <1>5, <2>1, <2>5
<1>8. CASE Release(w)
  <2>. DEFINE as == IF item.phase = "executed" THEN "succeeded" ELSE "failed_terminal"
  <2>1. /\ job' = [job EXCEPT ![s] = as] /\ events' = events \cup item.made
        /\ work' = [work EXCEPT ![w] = Idle]
        /\ item.phase \in {"executed", "missing"}
    BY <1>8 DEF Release, Settle, ToIdle
  <2>2. /\ s \in DOMAIN job
        /\ item.phase = "executed" => FirstEvents(table, s) \subseteq item.made
    BY <2>1 DEF WorkInv, ItemOK
  <2>3. as \in JobState /\ (as = "succeeded" => item.phase = "executed")
    BY DEF JobState
  <2>. HIDE DEF as
  <2>4. DOMAIN job' = DOMAIN job /\ job' \in [DOMAIN job' -> JobState]
    BY <2>1, <2>3 DEF JobInv
  <2>5. \A k \in DOMAIN job' : job'[k] = "succeeded" =>
           \/ k \in DOMAIN job /\ job[k] = "succeeded"
           \/ FirstEvents(table', k) \subseteq events'
    BY <1>0, <2>1, <2>2, <2>3
  <2>6. JobInv'
    <3>1. events \subseteq events'
      BY <2>1
    <3>2. DOMAIN job' \subseteq DOMAIN table' \cup Images
      BY <1>2, <2>4
    <3>. QED
      BY <1>2, <2>4, <2>5, <3>1, <3>2, JobsKept
  <2>7. WorkInv'
    BY <1>3, <1>4, <2>1, <2>4 DEF WorkInv
  <2>. QED
    BY <2>6, <2>7
<1>9. CASE RollBack(w)
  <2>1. work' = [work EXCEPT ![w] = Idle] /\ UNCHANGED <<job, events>>
    BY <1>9 DEF RollBack, ToIdle
  <2>2. WorkInv'
    BY <1>3, <1>4, <2>1 DEF WorkInv
  <2>. QED
    BY <1>5, <2>1, <2>2
<1>. QED
  BY <1>6, <1>7, <1>8, <1>9 DEF Work

LEMMA JobStep ==
  ASSUME RowInv, ScriptInv, JobInv, WorkInv, [Next]_vars
  PROVE  JobInv' /\ WorkInv'
<1>1. RowInv' /\ TableKept /\ scenario' = scenario
  BY RowStep, StepKeepsTable
<1>2. ASSUME NEW i \in Images, PruneImage(i)
      PROVE  JobInv' /\ WorkInv'
  BY <1>2 DEF PruneImage, buckets, JobInv, WorkInv
<1>3. ASSUME NEW s \in DOMAIN job, Exhaust(s)
      PROVE  JobInv' /\ WorkInv'
  <2>1. /\ job' = [job EXCEPT ![s] = "failed_terminal"]
        /\ UNCHANGED <<table, inputs, scenario, images, work, events>>
    BY <1>3 DEF Exhaust, Settle, buckets
  <2>2. DOMAIN job' = DOMAIN job /\ job' \in [DOMAIN job' -> JobState]
    BY <2>1 DEF JobInv, JobState
  <2>3. \A k \in DOMAIN job' : job'[k] = "succeeded" => job[k] = "succeeded"
    BY <2>1
  <2>. QED
    BY <2>1, <2>2, <2>3 DEF JobInv, WorkInv
<1>4. ASSUME NEW r \in Scripts, Rederive(r)
      PROVE  JobInv' /\ WorkInv'
  <2>1. UNCHANGED <<inputs, images, job, work, events>>
    BY <1>4 DEF Rederive, LoadBuckets, RederiveBucket, StopRederiving, buckets
  <2>2. JobInv'
    BY <1>1, <2>1, FirstEventsKept DEF JobInv, TableKept
  <2>3. WorkInv'
    BY <1>1, <2>1, WorkKept
  <2>. QED
    BY <2>2, <2>3
<1>5. ASSUME NEW s, BackfillEvents(s)
      PROVE  JobInv' /\ WorkInv'
  <2>1. /\ events \subseteq events'
        /\ UNCHANGED <<table, inputs, scenario, images, work, job>>
    BY <1>5 DEF BackfillEvents, buckets
  <2>. QED
    BY <2>1 DEF JobInv, WorkInv
<1>6. CASE UNCHANGED vars
  BY <1>6 DEF vars, buckets, JobInv, WorkInv
<1>7. CASE ReplayBucket
  BY <1>1, <1>7, InputStep
<1>8. CASE AfterReplay
  <2>1. CASE \E d \in Deliveries : IngestBucket(d)
    BY <1>1, <2>1, InputStep
  <2>2. CASE \E i \in Images : ReceiveImage(i) \/ PruneImage(i)
    BY <1>1, <1>2, <2>2, InputStep
  <2>3. CASE \E w \in Workers : Work(w)
    BY <1>1, <2>3, WorkerStep
  <2>4. CASE \E s \in DOMAIN job : Exhaust(s)
    BY <1>3, <2>4
  <2>5. CASE \E r \in Scripts : Rederive(r)
    BY <1>4, <2>5
  <2>6. CASE \E s \in images \cup DOMAIN table : BackfillEvents(s)
    BY <1>5, <2>6
  <2>. QED
    BY <1>8, <2>1, <2>2, <2>3, <2>4, <2>5, <2>6 DEF AfterReplay
<1>. QED
  BY <1>6, <1>7, <1>8 DEF Next

LEMMA JobsCorrect == Spec => [](RowInv /\ ScriptInv /\ JobInv /\ WorkInv)
<1>. DEFINE Inv == RowInv /\ ScriptInv /\ JobInv /\ WorkInv
<1>1. Init => Inv
  BY RowInit, JobInit
<1>2. Inv /\ [Next]_vars => Inv'
  BY RowStep, JobStep
<1>. QED
  BY <1>1, <1>2, PTL DEF Spec

-----------------------------------------------------------------------------
(* One run of rederive_markers at a time *)

OneScript == \A r, q \in Scripts : r = q

EventsOfImages == UNION {ImageEvents(i) : i \in Images}
EventsOfRows(rows) == UNION {BucketEvents(i, rows[i].markers) : i \in DOMAIN rows}
AllEvents(rows) == EventsOfImages \cup EventsOfRows(rows)

\* Nobody writes a row that the script has loaded; so none of its markers is
\* ever lost, nor an event left without its marker.
EventInv ==
  /\ \A r \in Scripts : \A i \in rederiving[r].todo : rederiving[r].seen[i] = table[i].markers
  /\ events \subseteq AllEvents(table)
  /\ \A w \in Workers : work[w].made \subseteq AllEvents(table)

MarkersKept == \A i \in DOMAIN table : table[i].markers \subseteq table'[i].markers

LEMMA InAllEvents ==
  ASSUME NEW rows, NEW e
  PROVE  e \in AllEvents(rows) <=>
           \/ \E i \in Images : e \in ImageEvents(i)
           \/ \E i \in DOMAIN rows : e \in BucketEvents(i, rows[i].markers)
<1>1. e \in EventsOfImages <=> \E i \in Images : e \in ImageEvents(i)
  BY Zenon DEF EventsOfImages
<1>2. e \in EventsOfRows(rows) <=> \E i \in DOMAIN rows : e \in BucketEvents(i, rows[i].markers)
  BY Zenon DEF EventsOfRows
<1>. QED
  BY <1>1, <1>2 DEF AllEvents

LEMMA MoreEventsOf ==
  ASSUME NEW rows, NEW more, DOMAIN rows \subseteq DOMAIN more,
         \A i \in DOMAIN rows : rows[i].markers \subseteq more[i].markers
  PROVE  AllEvents(rows) \subseteq AllEvents(more)
<1>. SUFFICES ASSUME NEW e \in AllEvents(rows)
              PROVE  e \in AllEvents(more)
  OBVIOUS
<1>1. CASE \E i \in Images : e \in ImageEvents(i)
  BY <1>1, InAllEvents
<1>2. CASE \E i \in DOMAIN rows : e \in BucketEvents(i, rows[i].markers)
  <2>1. PICK i \in DOMAIN rows : e \in BucketEvents(i, rows[i].markers)
    BY <1>2
  <2>2. e \in BucketEvents(i, more[i].markers)
    BY <2>1 DEF BucketEvents
  <2>. QED
    BY <2>1, <2>2, InAllEvents
<1>. QED
  BY <1>1, <1>2, InAllEvents

LEMMA ScriptStep ==
  ASSUME OneScript, RowInv, ScriptInv, EventInv, [Next]_vars
  PROVE  /\ MarkersKept
         /\ \A r \in Scripts : \A i \in rederiving'[r].todo :
              rederiving'[r].seen[i] = table'[i].markers
<1>. DEFINE Seen == \A r \in Scripts : \A i \in rederiving[r].todo :
                      rederiving[r].seen[i] = table[i].markers
<1>1. ASSUME NEW b, Ingests(b)
      PROVE  MarkersKept /\ Seen'
  <2>0. table' = Ingested(table, b)
    BY <1>1 DEF Ingests, IngestRow
  <2>1. \A i \in DOMAIN table : table'[i] = table[i]
    BY <2>0, IngestedRows
  <2>2. rederiving' = rederiving
    BY <1>1 DEF Ingests
  <2>3. \A r \in Scripts : rederiving[r].todo \subseteq DOMAIN table
    BY DEF ScriptInv
  <2>. QED
    BY <2>1, <2>2, <2>3 DEF MarkersKept, EventInv
<1>2. ASSUME NEW r \in Scripts, LoadBuckets(r)
      PROVE  MarkersKept /\ Seen'
  <2>. DEFINE ids == {i \in DOMAIN table : i.start >= RederiveFrom}
              seen == [i \in ids |-> table[i].markers]
  <2>1. PICK produce \in {ProducedHistoryMarkers, ImplementedHistoryMarkers} :
          rederiving' = [rederiving EXCEPT ![r] = [todo |-> ids, seen |-> seen, produce |-> produce]]
    BY <1>2 DEF LoadBuckets
  <2>2. table' = table
    BY <1>2 DEF LoadBuckets, buckets
  <2>3. \A i \in ids : seen[i] = table[i].markers
    OBVIOUS
  <2>. HIDE DEF ids, seen
  <2>4. rederiving'[r] = [todo |-> ids, seen |-> seen, produce |-> produce]
    BY <2>1 DEF ScriptInv
  <2>5. \A q \in Scripts : q = r
    BY DEF OneScript
  <2>. QED
    BY <2>2, <2>3, <2>4, <2>5 DEF MarkersKept
<1>3. ASSUME NEW r \in Scripts, NEW i \in rederiving[r].todo, RederiveBucket(r, i)
      PROVE  MarkersKept /\ Seen'
  <2>1. /\ \A k \in DOMAIN table : k # i => table'[k].markers = table[k].markers
        /\ i \in DOMAIN table
        /\ table[i].markers \subseteq rederiving[r].seen[i]
             => table[i].markers \subseteq table'[i].markers
    BY <1>3, RederivedTable
  <2>2. MarkersKept
    BY <2>1 DEF MarkersKept, EventInv
  <2>. DEFINE run == rederiving[r]
  <2>3. rederiving'[r] = WithoutRow(run, i)
    BY <1>3 DEF RederiveBucket, ScriptInv
  <2>4. run = [todo |-> run.todo, seen |-> run.seen, produce |-> run.produce]
    BY DEF ScriptInv
  <2>5. \/ rederiving'[r] = NoRun
        \/ rederiving'[r] = [todo |-> run.todo \ {i}, seen |-> run.seen, produce |-> run.produce]
    BY <2>3, <2>4 DEF WithoutRow
  <2>6. \A q \in Scripts : q = r
    BY DEF OneScript
  <2>7. run.todo \subseteq DOMAIN table
    BY DEF ScriptInv
  <2>8. \A k \in run.todo : run.seen[k] = table[k].markers
    BY DEF EventInv
  <2>. HIDE DEF run
  <2>9. Seen'
    BY <2>1, <2>5, <2>6, <2>7, <2>8 DEF NoRun
  <2>. QED
    BY <2>2, <2>9
<1>4. ASSUME NEW r \in Scripts, StopRederiving(r)
      PROVE  MarkersKept /\ Seen'
  <2>1. rederiving' = [rederiving EXCEPT ![r] = NoRun] /\ table' = table
    BY <1>4 DEF StopRederiving, buckets
  <2>2. rederiving'[r] = NoRun /\ \A q \in Scripts : q = r
    BY <2>1 DEF ScriptInv, OneScript
  <2>. QED
    BY <2>1, <2>2 DEF NoRun, MarkersKept
<1>5. ASSUME UNCHANGED <<scenario, position, table, overtaken, rederiving>>
      PROVE  MarkersKept /\ Seen'
  BY <1>5 DEF MarkersKept, EventInv
<1>6. MarkersKept /\ Seen'
  BY <1>1, <1>2, <1>3, <1>4, <1>5, RowSteps DEF Rederive
<1>. QED
  BY <1>6

LEMMA EventStep ==
  ASSUME OneScript, RowInv, RowInv', ScriptInv, JobInv, WorkInv, EventInv, [Next]_vars
  PROVE  EventInv'
<1>0. /\ AllEvents(table) \subseteq AllEvents(table')
      /\ DOMAIN table \subseteq DOMAIN table'
  BY ScriptStep, StepKeepsTable, MoreEventsOf DEF MarkersKept, TableKept
<1>1. ASSUME events' = events, work' = work
      PROVE  EventInv'
  BY <1>0, <1>1, ScriptStep DEF EventInv
<1>2. CASE ReplayBucket
  <2>1. PICK b : b = ReplayOf(scenario)[position]
    OBVIOUS
  <2>2. events' = events \cup BucketEvents(b.id, table'[b.id].markers) /\ work' = work /\ IngestRow(b)
    BY <1>2, <2>1 DEF ReplayBucket
  <2>3. b.id \in DOMAIN table'
    BY <2>2, IngestedRows DEF IngestRow
  <2>4. BucketEvents(b.id, table'[b.id].markers) \subseteq AllEvents(table')
    BY <2>3, InAllEvents
  <2>. QED
    BY <1>0, <2>2, <2>4, ScriptStep DEF EventInv
<1>3. ASSUME NEW s, s \in Images \cup DOMAIN table
      PROVE  Produced(s) \subseteq AllEvents(table)
  BY <1>3, InAllEvents DEF Produced
<1>4. ASSUME NEW w \in Workers, Work(w)
      PROVE  EventInv'
  <2>1. table' = table
    BY <1>4 DEF Work, Claim, Produce, Release, RollBack, buckets
  <2>2. ASSUME events' = events, \A v \in Workers : v # w => work'[v] = work[v],
               work'[w].made \subseteq AllEvents(table)
        PROVE  EventInv'
    <3>1. \A v \in Workers : work'[v].made \subseteq AllEvents(table)
      BY <2>2 DEF EventInv
    <3>2. AllEvents(table') = AllEvents(table)
      BY <2>1
    <3>3. events' \subseteq AllEvents(table)
      BY <2>2 DEF EventInv
    <3>. QED
      BY <3>1, <3>2, <3>3, ScriptStep DEF EventInv
  <2>3. CASE Produce(w)
    <3>. DEFINE s == work[w].source
    <3>1. s \in Images \cup DOMAIN table
      BY <2>3 DEF Produce, WorkInv, ItemOK, JobInv
    <3>2. Produced(s) \subseteq AllEvents(table)
      BY <1>3, <3>1
    <3>3. /\ events' = events
          /\ \/ work' = [work EXCEPT ![w].phase = "missing"]
             \/ work' = [work EXCEPT ![w] = [source |-> s, phase |-> "executed", made |-> Produced(s)]]
      BY <2>3 DEF Produce
    <3>. HIDE DEF s
    <3>4. work'[w].made \in {work[w].made, Produced(s)}
      BY <3>3 DEF WorkInv, ItemOK
    <3>5. \A v \in Workers : v # w => work'[v] = work[v]
      BY <3>3 DEF WorkInv
    <3>. QED
      BY <2>2, <3>2, <3>3, <3>4, <3>5 DEF EventInv
  <2>4. CASE Release(w)
    <3>1. /\ events' = events \cup work[w].made /\ work' = [work EXCEPT ![w] = Idle]
      BY <2>4 DEF Release, ToIdle
    <3>2. work'[w].made = {} /\ \A v \in Workers : v # w => work'[v] = work[v]
      BY <3>1 DEF WorkInv, Idle
    <3>. QED
      BY <1>0, <2>1, <3>1, <3>2, ScriptStep DEF EventInv
  <2>5. CASE RollBack(w) \/ \E s \in DOMAIN job : Claim(w, s)
    <3>1. /\ events' = events /\ \A v \in Workers : v # w => work'[v] = work[v]
          /\ work'[w].made = {}
      BY <2>5 DEF RollBack, Claim, ToIdle, Idle, WorkInv
    <3>. QED
      BY <2>2, <3>1
  <2>. QED
    BY <1>4, <2>3, <2>4, <2>5 DEF Work
<1>5. ASSUME NEW s \in images \cup DOMAIN table, BackfillEvents(s)
      PROVE  EventInv'
  <2>1. events' = events \cup Produced(s) /\ table' = table /\ work' = work
    BY <1>5 DEF BackfillEvents, buckets
  <2>2. Produced(s) \subseteq AllEvents(table)
    BY <1>3 DEF JobInv
  <2>. QED
    BY <2>1, <2>2, <1>0, ScriptStep DEF EventInv
<1>6. CASE \E d \in Deliveries : IngestBucket(d)
  BY <1>1, <1>6 DEF IngestBucket
<1>7. CASE \E i \in Images : ReceiveImage(i) \/ PruneImage(i)
  BY <1>1, <1>7 DEF ReceiveImage, PruneImage
<1>8. CASE \E s \in DOMAIN job : Exhaust(s)
  BY <1>1, <1>8 DEF Exhaust
<1>9. CASE \E r \in Scripts : Rederive(r)
  BY <1>1, <1>9 DEF Rederive, LoadBuckets, RederiveBucket, StopRederiving
<1>10. CASE UNCHANGED vars
  BY <1>1, <1>10 DEF vars
<1>. QED
  BY <1>2, <1>4, <1>5, <1>6, <1>7, <1>8, <1>9, <1>10 DEF Next, AfterReplay

LEMMA EventInit ==
  ASSUME Init
  PROVE  EventInv
  BY DEF Init, EventInv, Idle, NoRun

LEMMA EventsCorrect ==
  OneScript => (Spec => [](RowInv /\ ScriptInv /\ JobInv /\ WorkInv /\ EventInv))
<1>. SUFFICES ASSUME OneScript
              PROVE  Spec => [](RowInv /\ ScriptInv /\ JobInv /\ WorkInv /\ EventInv)
  OBVIOUS
<1>1. Init => RowInv /\ ScriptInv /\ JobInv /\ WorkInv /\ EventInv
  BY RowInit, JobInit, EventInit
<1>2. RowInv /\ ScriptInv /\ JobInv /\ WorkInv /\ EventInv /\ [Next]_vars
        => (RowInv /\ ScriptInv /\ JobInv /\ WorkInv /\ EventInv)'
  BY RowStep, JobStep, EventStep
<1>. QED
  BY <1>1, <1>2, PTL DEF Spec

(***************************************************************************)
(* With one run of rederive_markers at a time no job is of an unknown      *)
(* source and no bucket loses a marker it was ingested with: what a run    *)
(* has loaded is what the row still has when it is written back.           *)
(***************************************************************************)
THEOREM TypeCorrect == OneScript => (Spec => []TypeOK)
<1>. SUFFICES ASSUME OneScript
              PROVE  Spec => []TypeOK
  OBVIOUS
<1>1. RowInv /\ ScriptInv /\ JobInv /\ WorkInv /\ EventInv => TypeOK
  <2>. SUFFICES ASSUME RowInv, ScriptInv, JobInv, WorkInv, EventInv
                PROVE  TypeOK
    OBVIOUS
  <2>1. /\ \A i \in DOMAIN table : table[i].first \subseteq table[i].markers
        /\ overtaken \subseteq DOMAIN table
    BY DEF RowInv, RowsOK, Sound
  <2>2. \A w \in Workers :
          /\ work[w].phase \in {"idle", "claimed", "executed", "missing"}
          /\ work[w].phase # "idle" => work[w].source \in DOMAIN job
    BY DEF WorkInv, ItemOK
  <2>3. \A r \in Scripts :
          /\ rederiving[r].todo \subseteq DOMAIN table
          /\ \A i \in rederiving[r].todo : rederiving[r].seen[i] \subseteq table[i].markers
    BY DEF ScriptInv, EventInv
  <2>. QED
    BY <2>1, <2>2, <2>3 DEF TypeOK, RowInv, JobInv, Sources
<1>. QED
  BY <1>1, EventsCorrect, PTL

(***************************************************************************)
(* With one run of rederive_markers at a time every event is of an image   *)
(* or of a marker its bucket still has, and a job that succeeded has made  *)
(* every event it was queued for, whatever workers, retention and          *)
(* backfill_events do beside it.                                           *)
(***************************************************************************)
THEOREM EventsHaveMarkers == OneScript => (Spec => []EventsFollowMarkers)
<1>. SUFFICES ASSUME OneScript
              PROVE  Spec => []EventsFollowMarkers
  OBVIOUS
<1>1. ASSUME EventInv, JobInv
      PROVE  EventsFollowMarkers
  <2>1. ASSUME NEW e \in events
        PROVE  \/ \E i \in Images : e \in ImageEvents(i)
               \/ \E i \in DOMAIN table : e \in BucketEvents(i, table[i].markers)
    BY <1>1, InAllEvents DEF EventInv
  <2>2. ASSUME NEW s \in DOMAIN job, job[s] = "succeeded"
        PROVE  (IF s \in Images THEN ImageEvents(s) ELSE BucketEvents(s, table[s].first)) \subseteq events
    BY <1>1, <2>2 DEF JobInv, FirstEvents
  <2>. QED
    BY <2>1, <2>2 DEF EventsFollowMarkers
<1>. QED
  BY <1>1, EventsCorrect, PTL

=============================================================================
