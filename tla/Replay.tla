------------------------------- MODULE Replay -------------------------------
(***************************************************************************)
(* The synthetic days of src/scripts/replay_buckets.py: sequences of       *)
(* buckets that the script feeds to ingest_bucket one after the other.     *)
(* Each random.uniform is its lowest value, its highest, or both in turn   *)
(* (pattern); base is the minute the scenario starts at.  scenario_workday *)
(* is left out: its 96 buckets a day bring their own markers.              *)
(***************************************************************************)
EXTENDS Derivation, Sequences

CONSTANT Pattern \* "low", "high" or "mixed"

ASSUME PatternAssumption == Pattern \in {"low", "high", "mixed"}

Pick(i, low, high) ==
  IF Pattern = "high" \/ (Pattern = "mixed" /\ i % 2 = 0) THEN high ELSE low

\* The id covers the counts, never the markers.
BuildBucket(t, count, markers) ==
  [id |-> [start |-> t, hash |-> {<<"replayed", count>>}], count |-> count, markers |-> markers]

Midnight(t) == DayOf(t) * 1440
Hour(t, h) == Midnight(t) + h * 60

\* The injected markers are 7 minutes into the window.
Injected(keys, t) == {Marker(k, t + 7) : k \in keys}

\* One bucket each quarter of an hour from t on.
Quarters(t, hours, Bucket(_, _)) ==
  [i \in 1 .. 4 * hours |-> Bucket(i, t + (i - 1) * 15)]

ScenarioSteady(base, hours) ==
  Quarters(base, hours, LAMBDA i, t : BuildBucket(t, Pick(i, 45, 120), {}))

ScenarioIdle(base, hours) ==
  Quarters(base, hours, LAMBDA i, t : BuildBucket(t, Pick(i, 0, 2), {}))

\* A spike in one quarter of each hour and a drop in the next one.
ScenarioSpike(base, hours, quarter) ==
  Quarters(base, hours, LAMBDA i, t :
    IF (i - 1) % 4 = quarter THEN BuildBucket(t, Pick(i, 225, 450), Injected({"spike"}, t))
    ELSE IF (i - 1) % 4 = (quarter + 1) % 4 THEN BuildBucket(t, 0, Injected({"drop"}, t))
    ELSE BuildBucket(t, Pick(i, 45, 120), {}))

ScenarioAnomaly(base, hours) ==
  Quarters(base, hours, LAMBDA i, t : BuildBucket(t, Pick(i, 75, 150), {}))

ScenarioAfterHours(base, hours) ==
  Quarters(Hour(base, 22), hours, LAMBDA i, t :
    BuildBucket(t, Pick(i, 30, 90), Injected({"after_hours"}, t)))

\* Five days that begin at 07:00 and one that begins at 10:00.
ScenarioLateStartBy3h(base) ==
  [i \in 1..6 |->
     BuildBucket(Hour(base, IF i = 6 THEN 10 ELSE 7) - (6 - i) * 1440, 75, {})]

\* Three quiet hours from midnight on, then activity.
ScenarioStartOfDay(base, hours) ==
  Quarters(Midnight(base), 3 + Max({3, hours - 3}), LAMBDA i, t :
    BuildBucket(t, IF i <= 12 THEN 0 ELSE Pick(i, 75, 120), {}))

\* A steady day from 08:00 with nothing in the first quarter of its last hour.
ScenarioDropMidday(base, hours) ==
  LET all == Max({5, hours})
  IN  Quarters(Hour(base, 8), all, LAMBDA i, t :
        BuildBucket(t, IF i = 4 * all - 3 THEN 0 ELSE Pick(i, 90, 150), {}))

\* A quiet night with a spike each hour and nothing after it.
ScenarioAfterHoursDrop(base, hours, quarter) ==
  Quarters(Hour(base, 23), hours, LAMBDA i, t :
    IF (i - 1) % 4 = quarter
    THEN BuildBucket(t, Pick(i, 225, 375), Injected({"after_hours", "spike"}, t))
    ELSE IF (i - 1) % 4 = quarter + 1
    THEN BuildBucket(t, 0, Injected({"after_hours", "drop"}, t))
    ELSE BuildBucket(t, Pick(i, 7, 30), Injected({"after_hours"}, t)))

=============================================================================
