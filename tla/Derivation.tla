----------------------------- MODULE Derivation -----------------------------
(***************************************************************************)
(* How the fragments of a window become one bucket, and which markers the  *)
(* bucket gets: pure operators, translated from                            *)
(*   src/shared/clients/trailer_intake.py   transform_to_bucket_record     *)
(*   src/shared/signals/derive.py           derive_markers, _derive_*      *)
(*   src/shared/signals/history.py          fetch_bucket_history           *)
(*                                                                         *)
(* Times are minutes since midnight of day 0, UTC.  A marker is its key    *)
(* and its time: (event_type, ts) is what every deduplication looks at.    *)
(* The history of a camera is a function from its bucket ids to their      *)
(* object_count_total.  Means and deviations stay sums: each comparison is *)
(* multiplied out, so that it is exact where the code rounds a float.      *)
(***************************************************************************)
EXTENDS Integers, FiniteSets, FiniteSetsExt

CONSTANTS
  BucketMinutes, \* length of a window
  NoPeak         \* max_count_at is null

HourOf(t) == (t % 1440) \div 60
DayOf(t)  == t \div 1440

Marker(key, t) == [key |-> key, ts |-> t]

-----------------------------------------------------------------------------
(* From fragments to a bucket *)

\* One fragment per object type; anomalous: flag set and score >= 0.7.
FragmentIn(types, counts, times) ==
  [type : types, detections : counts, anomalous : BOOLEAN, peak : times \cup {NoPeak}]

\* The hash covers what was counted; neither peaks nor anomaly scores.
DetectionHash(frags) == {<<f.type, f.detections>> : f \in frags}

Detections(frags) == MapThenSumSet(LAMBDA f : f.detections, frags)

SpikeMarkers(frags, t) ==
  {Marker("spike", IF f.peak = NoPeak THEN t ELSE f.peak) : f \in {g \in frags : g.anomalous}}

Daytime(t) == HourOf(t) \in 6..20

AfterHoursMarkers(frags, t) ==
  {Marker("after_hours", x) : x \in {y \in {t} : ~Daytime(y) /\ \E f \in frags : f.detections > 0}}

DeriveMarkers(frags, t) == SpikeMarkers(frags, t) \cup AfterHoursMarkers(frags, t)

\* The bucket_id is the hash of the camera, the window and the detections.
Transform(frags, t) ==
  [id      |-> [start |-> t, hash |-> DetectionHash(frags)],
   count   |-> Detections(frags),
   markers |-> DeriveMarkers(frags, t)]

-----------------------------------------------------------------------------
(* The history of a camera before a bucket *)

RollingWindowBuckets  == 96
DayBaselineWindowDays == 14
QuietFloorDetections  == 1
QuietRunCapMinutes    == 24 * 60

Active(past) == {i \in DOMAIN past : past[i] >= QuietFloorDetections}

\* ORDER BY bucket_start_utc DESC LIMIT 96.
Rolling(past) ==
  IF Cardinality(DOMAIN past) <= RollingWindowBuckets THEN DOMAIN past
  ELSE {i \in DOMAIN past :
          Cardinality({k \in DOMAIN past : k.start > i.start}) < RollingWindowBuckets}

RollingStats(past) ==
  [n       |-> Cardinality(Rolling(past)),
   sum     |-> MapThenSumSet(LAMBDA i : past[i], Rolling(past)),
   squares |-> MapThenSumSet(LAMBDA i : past[i] * past[i], Rolling(past))]

\* Starts of the active buckets of a day.
ActiveOn(past, day) == {i.start : i \in {k \in Active(past) : DayOf(k.start) = day}}

\* Minutes since the end of the last active bucket.
QuietMinutes(past, t) ==
  LET ago == {t - (i.start + BucketMinutes) : i \in Active(past)}
  IN  IF ago = {} THEN QuietRunCapMinutes ELSE Min({QuietRunCapMinutes, Max({0, Min(ago)})})

\* First active hour of each day of the baseline that has one.
FirstHours(past, t) ==
  LET days == {d \in DayOf(t) - DayBaselineWindowDays .. DayOf(t) - 1 : ActiveOn(past, d) # {}}
  IN  [d \in days |-> HourOf(Min(ActiveOn(past, d)))]

\* The k-th smallest of the values of f.
Kth(f, k) ==
  CHOOSE v \in {f[d] : d \in DOMAIN f} :
    /\ Cardinality({d \in DOMAIN f : f[d] < v}) < k
    /\ Cardinality({d \in DOMAIN f : f[d] <= v}) >= k

\* int(statistics.median(...)): the mean of the middle two, cut off.
Median(f) ==
  LET n == Cardinality(DOMAIN f)
  IN  (Kth(f, (n + 1) \div 2) + Kth(f, n \div 2 + 1)) \div 2

History(past, t) ==
  [rolling     |-> RollingStats(past),
   activeToday |-> ActiveOn(past, DayOf(t)),
   quiet       |-> QuietMinutes(past, t),
   firstHours  |-> FirstHours(past, t)]

-----------------------------------------------------------------------------
(* The markers of a history *)

\* x < mean - k * deviation, where k * k = num / den.
Below(x, r, num, den) ==
  LET gap == r.sum - r.n * x
  IN  /\ gap > 0
      /\ gap * gap * (r.n - 1) > (num * r.n * (r.n * r.squares - r.sum * r.sum)) \div den

\* x <= mean - k * deviation, where k * k = num.
NotAbove(x, r, num) ==
  LET gap == r.sum - r.n * x
  IN  /\ gap >= 0
      /\ gap * gap * (r.n - 1) >= num * r.n * (r.n * r.squares - r.sum * r.sum)

DropMinRollingSample    == 16
DropMinRollingMean      == 5
StartMinQuietMinutes    == 120
StartMinDetections      == 5
LateStartMinDays        == 5
LateStartHourDelay      == 2
LateStartMinDetections  == 5
UnderMinRollingSample   == 40
UnderMinRollingMean     == 10
UnderWarmupMinutes      == 30
UnderActiveWindowHours  == 10

\* Mutant: a sample of exactly the floor is not enough.
IsDropLater(count, t, h) ==
  /\ h.rolling.n > DropMinRollingSample
  /\ h.rolling.sum >= DropMinRollingMean * h.rolling.n
  /\ Daytime(t)
  /\ NotAbove(1, h.rolling, 4)
  /\ Below(count, h.rolling, 4, 1)

\* Two deviations below the mean, where that is 1 or more, by daylight.
IsDrop(count, t, h) ==
  /\ h.rolling.n >= DropMinRollingSample
  /\ h.rolling.sum >= DropMinRollingMean * h.rolling.n
  /\ Daytime(t)
  /\ NotAbove(1, h.rolling, 4)
  /\ Below(count, h.rolling, 4, 1)

\* Mutant: a start wherever there were two quiet hours.
IsStartAfterQuiet(count, t, h) ==
  /\ h.quiet >= StartMinQuietMinutes
  /\ count >= StartMinDetections

\* The first activity of the day after two quiet hours.
IsStart(count, t, h) ==
  /\ h.quiet >= StartMinQuietMinutes
  /\ count >= StartMinDetections
  /\ h.activeToday = {}

\* Mutant: the delay alone.
IsLate(count, t, h) ==
  /\ Cardinality(DOMAIN h.firstHours) >= LateStartMinDays
  /\ count >= LateStartMinDetections
  /\ HourOf(t) - Median(h.firstHours) >= LateStartHourDelay

\* The first activity of the day, two hours later than on most days.
IsLateStart(count, t, h) ==
  /\ Cardinality(DOMAIN h.firstHours) >= LateStartMinDays
  /\ h.activeToday = {}
  /\ count >= LateStartMinDetections
  /\ HourOf(t) - Median(h.firstHours) >= LateStartHourDelay

\* Active, one and a half deviations below the mean, in working hours.
IsUnderperforming(count, t, h) ==
  /\ h.rolling.n >= UnderMinRollingSample
  /\ h.rolling.sum >= UnderMinRollingMean * h.rolling.n
  /\ count > 0
  /\ Below(count, h.rolling, 9, 4)
  /\ DOMAIN h.firstHours # {}
  /\ HourOf(t) - Median(h.firstHours) \in 0 .. UnderActiveWindowHours - 1
  /\ h.activeToday # {}
  /\ t - Min(h.activeToday) >= UnderWarmupMinutes

ProducedHistoryMarkers    == {"drop", "start", "late_start"}
ImplementedHistoryMarkers == ProducedHistoryMarkers \cup {"underperforming"}

Fires(key, count, t, h) ==
  \/ key = "drop" /\ IsDrop(count, t, h)
  \/ key = "start" /\ IsStart(count, t, h)
  \/ key = "late_start" /\ IsLateStart(count, t, h)
  \/ key = "underperforming" /\ IsUnderperforming(count, t, h)

DeriveHistoryMarkers(count, t, past, produce) ==
  LET h == History(past, t)
  IN  {Marker(key, t) : key \in {k \in produce : Fires(k, count, t, h)}}

=============================================================================
