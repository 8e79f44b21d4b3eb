------------------------------- MODULE Signals -------------------------------
(***************************************************************************)
(* The markers of one camera's buckets and the events made of them:        *)
(*   src/shared/clients/cognia.py                ingest_bucket             *)
(*   src/services/panoptic_event_producer/       events of a job           *)
(*   src/shared/events/build.py                  event_id                  *)
(*   src/scripts/rederive_markers.py             markers found later       *)
(*   src/scripts/backfill_events.py              events without job       *)
(*   src/services/trailer_webhook/app.py         event job of images      *)
(*                                                                         *)
(* Buckets are ingested one by one, by the one finalizer, in the order in  *)
(* which their windows come to rest: any order.  Of the queue there is the *)
(* promise of LeaseQueue: an open job is offered until it is settled, a    *)
(* worker whose lease lapsed may go on beside the next one, and only one   *)
(* of them releases it; its events appear with the release.                *)
(***************************************************************************)
EXTENDS Replay

CONSTANTS
  Deliveries,   \* what may reach the finalizer: [start, frags]
  Scenarios,    \* names of the replays a run may start from
  Base,         \* bound: the minute the replays are based on
  Images,       \* images a trailer may push
  Trigger,      \* [Images -> trigger]
  Workers,      \* event producers
  NoJob,        \* a worker that waits for a message
  Scripts,      \* concurrent runs of rederive_markers
  MaxInputs,   \* bound: buckets and images received after a replay
  RederiveFrom  \* now - --days: what rederive_markers loads

\* bucket_start and bucket_end are "15-minute window boundaries"
\* (panoptic-push.md); a replay starts at a full hour.
InOneDay(t) == (t % 1440) + BucketMinutes <= 1440

VARIABLES
  scenario,  \* the replay that comes first
  position,  \* its next bucket
  table,     \* panoptic_buckets: id -> count, event_markers, markers at ingest
  overtaken, \* history: rows whose past was ingested after them
  inputs,   \* bound: buckets and images received since the replay
  images,    \* Images that have a row
  job,       \* event_produce job: bucket id or image -> "open" or settled
  work,      \* workers: job at hand, rows of events in their transaction
  events,    \* panoptic_events: [source, key, ts], the content of event_id
  rederiving \* runs of rederive_markers: rows to do, markers as loaded

buckets == <<scenario, position, table, overtaken, inputs>>
vars == <<buckets, images, job, work, events, rederiving>>

Idle == [source |-> NoJob, phase |-> "idle", made |-> {}]
NoRun == [todo |-> {}, seen |-> {}, produce |-> {}]

\* Mutant: the history includes what starts with the bucket.
PastAndNow(rows, t) == [i \in {k \in DOMAIN rows : k.start <= t} |-> rows[i].count]

\* What fetch_bucket_history can see of a camera before t.
Past(rows, t) == [i \in {k \in DOMAIN rows : k.start < t} |-> rows[i].count]

BucketEvents(id, markers) == {[source |-> id, key |-> m.key, ts |-> m.ts] : m \in markers}

\* alert and anomaly only: a novelty has an event type and no event.
ImageEvents(i) ==
  {[source |-> i, key |-> "image_trigger", ts |-> 0] : k \in {"alert", "anomaly"} \cap {Trigger[i]}}

-----------------------------------------------------------------------------
(* ingest_bucket *)

Ingested(rows, b) ==
  LET markers == b.markers \cup DeriveHistoryMarkers(
                    b.count, b.id.start, Past(rows, b.id.start), ProducedHistoryMarkers)
  IN  [i \in DOMAIN rows \cup {b.id} |->
         IF i \in DOMAIN rows THEN rows[i]
         ELSE [count |-> b.count, markers |-> markers, first |-> markers]]

\* The replay scripts and the windows they make.
ReplayOf(name) ==
  CASE name = "steady"           -> ScenarioSteady(Hour(Base, 6), 10)
    [] name = "idle"             -> ScenarioIdle(Base, 2)
    [] name = "spike"            -> ScenarioSpike(Base, 2, 3)
    [] name = "anomaly"          -> ScenarioAnomaly(Base, 2)
    [] name = "after_hours"      -> ScenarioAfterHours(Base, 2)
    [] name = "late_start_by_3h" -> ScenarioLateStartBy3h(Base)
    [] name = "start_of_day"     -> ScenarioStartOfDay(Base, 6)
    [] name = "drop_midday"      -> ScenarioDropMidday(Base, 5)
    [] name = "after_hours_drop" -> ScenarioAfterHoursDrop(Base, 2, 2)

BucketIds ==
  {Transform(d.frags, d.start).id : d \in Deliveries}
    \cup UNION {{ReplayOf(name)[n].id : n \in DOMAIN ReplayOf(name)} : name \in Scenarios}

ASSUME SignalsAssumption ==
  /\ BucketMinutes \in 1..15
  /\ Base \in Int /\ Base % 60 = 0
  /\ \A d \in Deliveries : d.start \in Int /\ InOneDay(d.start) /\ Detections(d.frags) \in Nat
  /\ Scenarios \subseteq {"steady", "idle", "spike", "anomaly", "after_hours", "late_start_by_3h",
                         "start_of_day", "drop_midday", "after_hours_drop"}
  /\ Images \cap BucketIds = {}
  /\ NoJob \notin Images
  /\ MaxInputs \in [Scenarios -> Nat]
  /\ Trigger \in [Images -> {"baseline", "alert", "anomaly", "novelty", "pulled"}]

Replaying == position \in DOMAIN ReplayOf(scenario)

Init ==
  /\ scenario \in Scenarios
  /\ position = 1
  /\ table = << >>
  /\ overtaken = {}
  /\ inputs = 0
  /\ images = {}
  /\ job = << >>
  /\ work = [w \in Workers |-> Idle]
  /\ events = {}
  /\ rederiving = [r \in Scripts |-> NoRun]

\* ON CONFLICT (job_key) DO NOTHING.
AddJob(s, as) ==
  job' = [i \in DOMAIN job \cup {s} |-> IF i \in DOMAIN job THEN job[i] ELSE as]

\* "complete": the first write of an id wins, a second one changes nothing.
IngestRow(b) ==
  /\ table' = Ingested(table, b)
  /\ overtaken' = overtaken \cup
       {i \in DOMAIN table : b.id \notin DOMAIN table /\ i.start > b.id.start}

\* Bound: each job of the replay is done before anything else happens.
ReplayBucket ==
  LET b == ReplayOf(scenario)[position]
  IN  /\ Replaying
      /\ position' = position + 1
      /\ IngestRow(b)
      /\ IF table'[b.id].markers # {} THEN AddJob(b.id, "succeeded") ELSE UNCHANGED job
      /\ events' = events \cup BucketEvents(b.id, table'[b.id].markers)
      /\ UNCHANGED <<scenario, inputs, images, work, rederiving>>

IngestBucket(d) ==
  LET b == Transform(d.frags, d.start)
  IN  /\ inputs < MaxInputs[scenario]
      /\ b.id \notin DOMAIN table
      /\ inputs' = inputs + 1
      /\ IngestRow(b)
      /\ IF table'[b.id].markers # {} THEN AddJob(b.id, "open") ELSE UNCHANGED job
      /\ UNCHANGED <<scenario, position, images, work, events, rederiving>>

\* receive_image: only alert and anomaly get an event job, once.
ReceiveImage(i) ==
  /\ i \notin images
  /\ images' = images \cup {i}
  /\ IF ImageEvents(i) # {} THEN AddJob(i, "open") ELSE UNCHANGED job
  /\ inputs < MaxInputs[scenario]
  /\ inputs' = inputs + 1
  /\ UNCHANGED <<scenario, position, table, overtaken, work, events, rederiving>>

\* Retention: the row goes, its job and events stay.
PruneImage(i) ==
  /\ i \in images
  /\ images' = images \ {i}
  /\ UNCHANGED <<buckets, job, work, events, rederiving>>

-----------------------------------------------------------------------------
(* The event producer *)

ToIdle(w) == work' = [work EXCEPT ![w] = Idle]

Settle(s, as) == job' = [job EXCEPT ![s] = as]

Claim(w, s) ==
  /\ work[w] = Idle
  /\ job[s] = "open"
  /\ work' = [work EXCEPT ![w] = [source |-> s, phase |-> "claimed", made |-> {}]]
  /\ UNCHANGED <<buckets, images, job, events, rederiving>>

\* Mutant: the keys the executor knows lag behind those that are derived.
ProducedOfOld(s) ==
  IF s \in Images THEN ImageEvents(s)
  ELSE BucketEvents(s, {m \in table[s].markers : m.key # "late_start"})

\* The rows the executor inserts for what it reads now.
Produced(s) ==
  IF s \in Images THEN ImageEvents(s) ELSE BucketEvents(s, table[s].markers)

Produce(w) ==
  LET s == work[w].source
  IN  /\ work[w].phase = "claimed"
      /\ IF s \in Images \ images
         THEN work' = [work EXCEPT ![w].phase = "missing"]
         ELSE work' = [work EXCEPT ![w] = [source |-> s, phase |-> "executed", made |-> Produced(s)]]
      /\ UNCHANGED <<buckets, images, job, events, rederiving>>

Release(w) ==
  /\ work[w].phase \in {"executed", "missing"}
  /\ job[work[w].source] = "open"
  /\ Settle(work[w].source, IF work[w].phase = "executed" THEN "succeeded" ELSE "failed_terminal")
  /\ events' = events \cup work[w].made
  /\ ToIdle(w)
  /\ UNCHANGED <<buckets, images, rederiving>>

\* The executor raises, the worker dies, or its lease has gone: nothing stays.
RollBack(w) ==
  /\ work[w] # Idle
  /\ ToIdle(w)
  /\ UNCHANGED <<buckets, images, job, events, rederiving>>

\* The attempts are used up: by the worker's release or by the reclaimer.
Exhaust(s) ==
  /\ job[s] = "open"
  /\ Settle(s, "failed_terminal")
  /\ UNCHANGED <<buckets, images, work, events, rederiving>>

-----------------------------------------------------------------------------
(* rederive_markers --apply-new *)

\* produce is every implemented key unless --produce says otherwise.
LoadBuckets(r) ==
  LET ids == {i \in DOMAIN table : i.start >= RederiveFrom}
  IN  /\ rederiving[r].todo = {}
      /\ \E produce \in {ProducedHistoryMarkers, ImplementedHistoryMarkers} :
           rederiving' = [rederiving EXCEPT ![r] =
             [todo |-> ids, seen |-> [i \in ids |-> table[i].markers], produce |-> produce]]
      /\ UNCHANGED <<buckets, images, job, work, events>>

\* Mutant: writes back what the derivation proposes, as --overwrite-all would.
OverwriteMarkers(i, seen, proposed) == [table EXCEPT ![i].markers = proposed]

\* Nothing is written unless something is new; then what was loaded and that.
ApplyNewMarkers(i, seen, proposed) ==
  IF proposed \subseteq seen THEN table
  ELSE [table EXCEPT ![i].markers = seen \cup proposed]

WithoutRow(run, i) == IF run.todo = {i} THEN NoRun ELSE [run EXCEPT !.todo = @ \ {i}]

\* Chronologically, each row against the table as it is now.
RederiveBucket(r, i) ==
  /\ i \in rederiving[r].todo
  /\ \A k \in rederiving[r].todo : i.start <= k.start
  /\ table' = ApplyNewMarkers(i, rederiving[r].seen[i],
                DeriveHistoryMarkers(table[i].count, i.start, Past(table, i.start),
                                     rederiving[r].produce))
  /\ rederiving' = [rederiving EXCEPT ![r] = WithoutRow(@, i)]
  /\ UNCHANGED <<scenario, position, overtaken, inputs, images, job, work, events>>

StopRederiving(r) ==
  /\ rederiving[r].todo # {}
  /\ rederiving' = [rederiving EXCEPT ![r] = NoRun]
  /\ UNCHANGED <<buckets, images, job, work, events>>

-----------------------------------------------------------------------------
(* backfill_events --apply *)

\* Each row is a transaction of its own, with the markers loaded or more: as
\* nobody reads events here, those of one source may well come in one step.
BackfillEvents(s) ==
  /\ ~ Produced(s) \subseteq events
  /\ events' = events \cup Produced(s)
  /\ UNCHANGED <<buckets, images, job, work, rederiving>>

-----------------------------------------------------------------------------
Work(w) ==
  \/ \E s \in DOMAIN job : Claim(w, s)
  \/ Produce(w)
  \/ Release(w)
  \/ RollBack(w)

Rederive(r) ==
  \/ LoadBuckets(r)
  \/ \E i \in rederiving[r].todo : RederiveBucket(r, i)
  \/ StopRederiving(r)

AfterReplay ==
  \/ \E d \in Deliveries : IngestBucket(d)
  \/ \E i \in Images : ReceiveImage(i) \/ PruneImage(i)
  \/ \E w \in Workers : Work(w)
  \/ \E s \in DOMAIN job : Exhaust(s)
  \/ \E r \in Scripts : Rederive(r)
  \/ \E s \in images \cup DOMAIN table : BackfillEvents(s)

Next ==
  \/ ReplayBucket
  \/ ~ Replaying /\ AfterReplay

Spec == Init /\ [][Next]_vars

-----------------------------------------------------------------------------
(* What is checked *)

Sources == DOMAIN table \cup Images
JobState == {"open", "succeeded", "failed_terminal"}

\* Types: job and events belong to buckets or images that were received.
TypeOK ==
  /\ DOMAIN job \subseteq Sources
  /\ job \in [DOMAIN job -> JobState]
  /\ \A i \in DOMAIN table : table[i].first \subseteq table[i].markers
  /\ position \in Nat
  /\ overtaken \subseteq DOMAIN table
  /\ inputs \in 0..MaxInputs[scenario]
  /\ images \subseteq Images
  /\ \A w \in Workers :
       /\ work[w].phase \in {"idle", "claimed", "executed", "missing"}
       /\ work[w].phase # "idle" => work[w].source \in DOMAIN job
  /\ \A r \in Scripts :
       /\ rederiving[r].todo \subseteq DOMAIN table
       /\ \A i \in rederiving[r].todo : rederiving[r].seen[i] \subseteq table[i].markers

(***************************************************************************)
(* What ingest_bucket derived from the table as it was is what a later     *)
(* re-derivation finds: "baselines never include or peek past the target   *)
(* bucket" (history.py).  Only a row whose past was ingested after it may  *)
(* differ, however many buckets its own window has.                        *)
(***************************************************************************)
RederiveAgrees ==
  \A i \in {k \in DOMAIN table \ overtaken : k.start >= RederiveFrom} :
    {m \in table[i].markers : m.key \in ProducedHistoryMarkers /\ m.ts = i.start}
      = DeriveHistoryMarkers(table[i].count, i.start, Past(table, i.start), ProducedHistoryMarkers)

(***************************************************************************)
(* A day starts once: of two windows of a day marked `start`, the later    *)
(* one was ingested before the earlier one.                                *)
(***************************************************************************)
StartsOncePerDay ==
  \A i, k \in DOMAIN table :
    (/\ i.start < k.start
     /\ DayOf(i.start) = DayOf(k.start)
     /\ Marker("start", i.start) \in table[i].markers
     /\ Marker("start", k.start) \in table[k].markers) => k \in overtaken

(***************************************************************************)
(* A late start is a start: the gate rederive_markers prints for operators *)
(* (late_start <= start) holds bucket by bucket, although the two rules    *)
(* look at different pasts and only one of them asks for two quiet hours.  *)
(***************************************************************************)
LateStartIsStart ==
  \A i \in DOMAIN table :
    Marker("late_start", i.start) \in table[i].markers
      => Marker("start", i.start) \in table[i].markers

(***************************************************************************)
(* Every event is of an alert or anomaly image or of a marker its bucket   *)
(* still has, whoever inserted it; and a job that succeeded has made the   *)
(* events of its image and of every marker its bucket was ingested with,   *)
(* though both scripts and the retention run beside it.                    *)
(***************************************************************************)
EventsFollowMarkers ==
  /\ \A e \in events :
       \/ \E i \in Images : e \in ImageEvents(i)
       \/ \E i \in DOMAIN table : e \in BucketEvents(i, table[i].markers)
  /\ \A s \in DOMAIN job : job[s] = "succeeded" =>
       (IF s \in Images THEN ImageEvents(s) ELSE BucketEvents(s, table[s].first)) \subseteq events

(***************************************************************************)
(* The replays show the markers they were written for: late_start_by_3h    *)
(* marks its last bucket as start and late_start, start_of_day starts      *)
(* exactly once, in its first active bucket, drop_midday derives one drop, *)
(* in its quiet quarter.  That first active bucket comes at 03:00, after   *)
(* quiet_hours = 3 (replay_buckets.py:390).  The docstring beside it says  *)
(* "~06:00 UTC" (line 380): the hour here is that of the code.             *)
(***************************************************************************)
HasFirst(key) ==
  {i.start : i \in {k \in DOMAIN table : /\ \E x \in k.hash : x[1] = "replayed"
                                        /\ Marker(key, k.start) \in table[k].first}}

ReplayAsDocumented ==
  ~ Replaying =>
    /\ scenario = "late_start_by_3h" =>
         HasFirst("late_start") = {Hour(Base, 10)} /\ Hour(Base, 10) \in HasFirst("start")
    /\ scenario = "start_of_day" => HasFirst("start") = {Hour(Base, 3)}
    /\ scenario = "drop_midday" => HasFirst("drop") = {Hour(Base, 12)}

=============================================================================
