# Panoptic in TLA+

Panoptic turns the detections of surveillance trailers into summaries, images
and reports. A trailer posts fragments to a webhook; the webhook gathers them
in Redis, ingests them into Postgres and enqueues jobs on Redis streams; worker
processes claim the jobs under a lease, call models, write results to Postgres
and Qdrant and enqueue further jobs; a reclaimer process recovers what crashed
workers leave behind; a search API answers queries and orders reports.

This directory holds TLA+ models of the parts of that system whose correctness
depends on the order of events, TLC configurations that check them, and proofs
of the main properties for every value of the constants. The definitions follow
the code; `PROJECT.json` names the lines of each.

    tlc -config LeaseQueue_live.cfg MCLeaseQueue.tla      check one instance
    tlapm LeaseQueue_proofs.tla                           check the proofs

## Inventory

State, operations and hazards of each part. "Modelled" names the module.

| Component | State | Operations | What makes it correct, and what is hard | Modelled |
|---|---|---|---|---|
| Lease queue: `shared/utils/leases.py`, `streams.py`, the workers' common loop, `panoptic_reclaimer` | `panoptic_jobs` rows; one stream, consumer group and DLQ per job type | claim, renew, release; XADD, XREADGROUP, XACK, XAUTOCLAIM; the reclaimer's tick | one execution at a time, finality of results, bounded attempts, nothing lost; crashes at every step, lost leases, duplicates, swallowed XADDs, stale snapshots | `LeaseQueue`, `JobLifecycle` |
| Bucket ingest: `clients/cognia.py` | buckets and their markers, job rows | one transaction, then XADDs | rows and messages come together; what a bucket's markers are derived from | `Submit`, `Publish` of `LeaseQueue`; `IngestWindow` of `Intake`; `IngestBucket` of `Signals` |
| Trailer intake: `trailer_webhook/app.py`, `clients/trailer_intake.py` | dedup keys, aggregation hash, active set, done marker | receive a fragment; the finalizer | accepted fragments are kept; one window, one bucket, or nested ones; crashes between Redis commands, TTLs, retries | `Intake`; the transformation of a window in `Derivation` |
| Bucket summaries: `panoptic_summary_agent` | `panoptic_summaries`, `panoptic_rollup_state`, embedding and rollup jobs | the transaction of a bucket_summary job | a latest summary per window, versions in order, counts; unlocked reads of racing transactions, re-execution | `Summaries` |
| Signals: `shared/signals`, `transform_to_bucket_record` | none (pure) | derive markers from a bucket and its history | baselines that look at different pasts; buckets that come in any order | `Derivation` |
| Event producer: `panoptic_event_producer`, `events/build.py` | `panoptic_events` | insert the events of a bucket or image | events follow markers; re-execution, backfill and retention beside it | `Signals` |
| Reports: `search_api/reports.py`, `panoptic_report_generator` | `panoptic_reports`, an HTML file | request, generate, mark | one generator per file, success is final, the stored path leads to a whole file; status, lease and file live in different transactions or none | `Reports` |
| Image pipeline: `receive_image`, `panoptic_image_caption_worker` | `panoptic_images`, image files | receive, caption, insert embedding jobs | a row has its file and its jobs; partial failure | `Images`; the event job of an image in `Signals` |
| Embedding workers (summary, caption, image) and `clients/qdrant.py` | Qdrant points, status columns | embed, upsert, mark | point and status agree; two stores, no common transaction | caption and image in `Images`; summary: queue side only |
| Frame pull: `search_api/pull_frame.py`, `clients/continuum.py` | a row and a file per frame, a caption job, a sliding window in memory | admit or refuse, look up, fetch, insert, write, commit | row, file and job come together; racing requests for one moment; a clock read outside of the lock | `FramePull` over `Limiter` and `SearchAPI`; `AtomicPull` |
| Search API: the reads of `search_api/` | none | search, verify, browse, details, trailer day, period summary, reports | which stored records a response may show, after the retention has removed some | `SearchAPI` |
| Agent: `panoptic_agent` | one conversation, a sliding window in memory | bounded loop of model and tool calls, citation check | it ends; citations refer to records; a model may say anything | `Assistant` |
| Operator scripts: `scripts/dlq_replay.py`, `reembed_*.py`, `prune_*.py` | the same tables | reset, re-enqueue, prune | they run beside a live system | replays, caption and image re-embedding and image pruning in `Images`; replay of a summary job in `Summaries`; replay and pruning of a report in `Reports` |
| Development scripts: `scripts/replay_buckets.py`, `rederive_markers.py`, `backfill_events.py` | the same tables | synthetic days; markers and events found later | the scenarios derive what they promise; lost updates | `Replay`, `Signals` |
| Rollup worker: `panoptic_rollup_worker` | hour summaries | aggregate a child set | no code inserts its job: see the findings | no: unreachable |
| Health: `shared/health` | counters behind a lock | count, report | nothing in the system acts on it | no |
| Operator UI | none | render | stateless | no |
| Model clients | none | HTTP calls | their failures are outcomes of the executors | as outcomes in `LeaseQueue` and `Assistant` |
| Authentication, schema, migrations | | | outside the scope of a functional model, or declarative | no |

The parts meet in the job row and its message: ingest and the API insert rows,
workers insert the rows of the next stage in the transaction that releases
their own, and every one of them sends the message only after its commit. That
gap, and the one between reading a message and claiming its row, is where jobs
can be lost; the gap between what a process has read and what it writes is
where results can be overwritten. Frame pulls join in at the image row and its
caption job, the agent only through the Search API.

`PROJECT.json` lists the hazards at their lines with the properties about each.

## Modules

### LeaseQueue, JobLifecycle

One action is one Postgres transaction or one Redis command.

* Rows: `state`, `owner` (`lease_owner`), `attempts` (`attempt_count`), and
  `lapsed` for `lease_expires_at < now()`, the only thing the code asks of time.
* Redis: `stream` (undelivered entries), `pel` (pending entries), `dlq`; `sent`
  tells entries of one job apart.
* Workers (`pc`): `ConsumeNext`, `ClaimJob` / `ClaimRefused`, `RenewLease` (the
  heartbeat thread, and `valid` for what `is_valid()` says), `ReleaseAndCommit`
  (results, downstream rows and new state in one commit) / `AbortStolen`,
  `EnqueueDownstream` or `EnqueueDlq`, `AckMessage`.
* The reclaimer (`rpc`) step by step as `reclaim_expired_leases` and the loop of
  its worker do it: `SelectExpired` commits and with it gives the row locks up,
  each row is then written by `ResetToPending` or `FailExhausted` from the
  selected snapshot, `AckStale` cleans the PEL, and only then `ReEnqueue`.
* `outbox` holds rows committed by a producer that has not sent the message.
* `Die` and `MessageError` end a worker's attempt anywhere; `TickFails` a tick;
  the `...Fails` actions are errors the code catches, logs and goes on from.
  The constant `Faults` says which kinds happen.

The states `running` and `cancelled` are left out (`mark_running` has no caller),
as are `panoptic_job_history`, the trimming of streams, and the limit of 100 rows
per tick. `degraded` behaves as `succeeded` everywhere in the queue.

`JobLifecycle` is the abstract specification: the lifecycle at the head of
`leases.py`, in which a claim, a release or a reclaim is one step on the row.
`LeaseQueue` implements it with the identity on `state` and `attempts`
(`RowsFollowLifecycle`, checked and proved). `Images` uses it from the other
side: see there.

### Summaries

The rows of one camera-hour. `SelectLatest` is the SELECT of `upsert_summary`,
`CommitSummary` everything from the INSERT to the commit: under READ COMMITTED
two workers may both have selected before either commits, while the upsert of
the rollup row locks the rest. `ReplayBucket` is `dlq_replay.py --job-id`;
`replayed` is a history variable that says which windows it touched.
`rollups` collects the child sets for which a rollup job would be inserted: none
is, since `ChildrenOf` asks for another name of the camera than summaries have.

### Intake

The window of one camera as the webhook sees it. The webhook is one event loop
whose handlers do not await between Redis commands, so `pc` is one value;
crashes, expiries and answers that get lost come in between. Each Redis command
that can fail by itself is an action (`ReceiveNew` is SET NX of the dedup key,
`StoreField` HSET, `MarkDone`, `DeleteHash`, `Untrack` ...). `timedOut` is a
history variable: the keys of the window that died of their TTL.

### Reports

`EXTENDS LeaseQueue` with the job of one report. The API's `RequestReport` reads
the status (`asking` keeps what each request has read), `WriteReport` upserts
report and job in one commit, whatever the two rows hold by then, in the place of
`Submit`. A worker's execution gets phases: `LoadReport`, `MarkRunning` and
`GenerationFails` are the executor's own transactions, which look at no lease;
`OpenFile` and `WriteFile` write the HTML `file`, which is in no transaction and
whose path depends on trailer, kind and window only; `ReleaseReport` commits
`success` and the path (`stored`) together with the release. `ReplayReport` is
`dlq_replay` of the job, with or without its reset, and `PruneFind`,
`PruneUnlink`, `PruneRow` are `prune_reports`, which may stop anywhere
(`PruneStops`); the constant `Scripts` says which of the two are used. All other
steps are those of the queue, and leave the report alone (`Carry`).

`raced` is a history variable. It becomes true when a request writes over a status
other than the one it has read, or when a reset, by a request or a replay, hits a
job that a worker has in hand without the status saying so. From then on two
workers may write one file, and what is promised of a report ends: the properties
say `~raced`. The proofs say what it takes to get there (`Undisturbed`) and what
holds all the same (`ResetsAreFenced`, `ResetsAreDelivered`).

### Images

One image: its row (`captionStatus`, `embedded` for the two embedding status
columns), its `file`, its two `points` in Qdrant and its three jobs. Of the
queue there is what `JobLifecycle` promises: a pending row is claimed, a row
whose lease ends or whose backoff is over is offered again while attempts are
left (`Reclaim`); messages, the DLQ and the ticks stay in `LeaseQueue`. A worker
claims, loads the row (`Load`: nothing to do, cannot be done, or at work),
stores its vector (`StorePoint`, outside of any transaction) and commits results
and release together (`Commit`), or is rolled back anywhere; one whose lease was
reclaimed goes on and is stopped at its release. Beside them run the scripts:
`ReplayJob` (dlq_replay), `ReembedCaptions`, `ForceReembedImages` and
`PrunePoints`, `PruneRow`, `PruneFile`, step by step. `reembed_captions` is one
transaction of two UPDATEs. The first locks the image row until the commit; the
second locks the job, and the script is one step (`ReembedCaptions`), unless a replay
has left the job pending. It then passes the job over without locking it
(`ReembedPassesOver`), and until `ReembedCommits` or `ReembedRollsBack` a worker may
claim the job and read the row as it was; those that have to write the row wait
(`RowFree`). Whether a caption has any text is not followed: `Load` of the worker
that embeds it may refuse any. The model's image is not pushed again once it is being
pruned; the event job of an image is in `Signals`.

`unbacked` is a history variable: the statuses a script has reset although their job
is done, or is about to be by a worker that found nothing to do (`Unbacked`). There
are two ways. `reembed_images --force` resets the row but not its succeeded job, so
that the message it sends is refused and the row stays pending. And
`reembed_captions` commits its reset after a worker has seen the old 'success' and
settled the job. In both cases the next reset of the job mends it.
`SucceededIsEmbedded` and `CaptionedIsEmbedded` except these statuses and no others.

`RowsFollowQueue` says that this is no other queue than the specified one: the
job rows of `Images` are those of `JobLifecycle`, with both embedding jobs
downstream of the caption, except that a script may restart a job in any state.
It is proved.

### Derivation, Replay, Signals

`Derivation` holds the pure part: how the fragments of a window become one
bucket (`Transform`), which history of a camera the rules look at (`History`,
with `Rolling`, `QuietMinutes`, `FirstHours` and the medians and deviations over
them), and each rule (`IsStart`, `IsLateStart`, `IsDrop`, `IsUnderperforming`,
the spike and after-hours markers). A camera's history is a function from
bucket ids to counts; means and deviations are kept as sums and each comparison
is multiplied out, where the code compares rounded floats.

`Replay` has the synthetic days of `replay_buckets.py`, one sequence of buckets
per scenario, with `random.uniform` at its lowest, its highest or both in turn
(`Pattern`). `Signals` starts with an empty table of one camera: `ReplayBucket`
ingests one replay bucket by bucket (`scenario`, `position`), and then
`IngestBucket` puts windows in any order; both derive the history markers of a
window from the table as it is (`IngestRow`). `Claim`, `Produce`, `Release`, `RollBack` and `Exhaust`
are the event producer over the promises of the queue, where a worker whose
lease lapsed goes on beside the next. `LoadBuckets` and `RederiveBucket` are
`rederive_markers.py --apply-new`, which reads all rows first and writes each of
them later; `BackfillEvents` is `backfill_events.py --apply`. `overtaken` is a
history variable: the rows whose past was ingested after them.
`SignalsAssumption` asks of the windows what the trailer's specification says and
nothing in the code enforces: they are at most 15 minutes long and none passes
midnight (`docs/panoptic-push.md:90`, "15-minute window boundaries").

### Limiter, SearchAPI, FramePull, AtomicPull

`Limiter` is the sliding window both HTTP services keep (`_rate_limit_check`,
`_SlidingWindowLimiter`): a deque of stamps from which the head is dropped while
it is older than the window. The stamp is taken before the lock, so `Admit` and
`Refuse` get it as an argument. `passed` is a history variable: stamp and time of
entry of the requests that were let through.

`SearchAPI` describes the reads: of a response only the set of record ids in it
counts, and each operator is the set of responses possible over the stored rows
and Qdrant points. `PruneImage` removes a row, its point perhaps not.

`FramePull` is `run_pull_frame` step by step in the API's threads (`pull`): limit,
`LookUp` in a transaction of its own, `FetchFrame` with its retries, `InsertRow`,
which waits for the uncommitted row of another request, `WriteFile` inside the
transaction, `CommitPull` with the caption job. `FileFails` leaves a torn file
and removes the row; `ApiRestart` is the process. `DatabaseFails` is an error of the
database, either before anything is committed (`RollBack`) or after a commit whose
acknowledgement is lost (`CommitUnheard`: the frame is stored, the client is told
500).

`AtomicPull` is the abstract specification of a pull, in which a request finds
the frame, creates it or is refused in one step. `FramePull` implements it
(`PullsAreAtomic`, proved) with each thread's frame and answer for the request and
its response, and `Complete` for `stored`: the frames with row, whole file and
caption job. What the client of a pull can tell apart is then what the abstract
steps do: of all requests for a frame one at most is told "created",
"already_exists" is said of a frame that is complete, and a request that got an
error, or no response because the API restarted, has torn no file of a frame that
is stored, and has stored one itself only if its commit went unheard.

### Assistant

`EXTENDS FramePull` with questions to the agent. `ReceiveAsk` resolves the
backend and `AllowAsk` passes the limiter. Each iteration of the loop is one
action: a tool (`SearchTool`, `BrowseTool`, `PeriodTool`, `ReportsTool`,
`DetailTool`, `WriteReport`, `PullFrame` ...), a parse failure, or the end
(`Answer`, `GiveUp`, `AskFails` ...). `known` collects the ids in the tool outputs
of the turn, which is all that `citations.py` looks at, and `asked`, a history
variable, those the model itself wrote into a call. A pull is a thread of the
Search API the tool waits for: `PullReturns`, or `PullTimesOut` after the client's
20 seconds, while the thread goes on. Retention, indexing and restarts of both
services happen beside it.

## Runs

| Run | Shows | Bounds |
|---|---|---|
| `LeaseQueue_live` | `NoLostJob`, `NoConcurrentExecution`, `RunningLeaseNotReclaimed`, the refinement `RowsFollowLifecycle`, and under fairness `EveryJobSettles`, with workers, messages and ticks that fail anywhere, but heartbeats that renew while their worker lives and commits that are followed by their XADD | a summary job that inserts its embedding job, 2 workers, 1 reclaimer, 2 attempts, fault `abandon` |
| `LeaseQueue_hostile` | `OnlyLatestAttemptCommits` under all faults, messages lost and leases lost by live workers included | the same two jobs, 2 workers, 2 reclaimers, 2 attempts, 3 messages of the summary; the embedding job is inserted and goes no further (`FewMessages`) |
| `LeaseQueue_frozen_snapshot` | *violated* `TerminalIsFinal`: the reclaimer resets a job that was released after its SELECT | 1 job, faults `abandon`, `lapse` |
| `Summaries_workers` | `SomeSummaryIsLatest`, `SupersededByNewer`, `EmbeddingPerSummary` | 4 buckets in 2 windows, 3 workers, one replay of each job |
| `Summaries_rollup` | *violated* `CoveredIsRolledUp`: an hour that is covered and has a latest summary, and no rollup job | as `Summaries_workers`, with the two names the code has for a camera |
| `Intake_window` | `AcceptedIsKept`, `BucketsNested`, and under fairness `AcceptedIsIngested`, with all faults | 3 fragments |
| `Signals` | `RederiveAgrees`, `StartsOncePerDay`, `LateStartIsStart`, `EventsFollowMarkers`, `ReplayAsDocumented` | 9 replays, then up to 3 inputs out of 4 deliveries of 3 windows and 2 images; 1 event producer, 1 script |
| `Images` | `EmbeddedHasPoint`, `CaptionChains`, `SucceededIsEmbedded`, `RowHasFile`, and under fairness `CaptionedIsEmbedded` | 1 image with 3 jobs, 2 workers, 2 attempts, pruning, 2 scripts that reset; a second script, or one beside the pruning, on an image that is done up to the embedding of its caption, and what follows the end of the row without a script (`Explored`) |
| `Reports` | `OneGenerator`, `SucceededHasReport`, `SuccessIsFinal` with workers that die, err and lose their leases, replays and pruning | 2 workers, 1 reclaimer, 2 requests at a time, 2 messages, without the fault `preclaim`; up to the first race (`Explored`) |
| `Reports_stuck` | *violated* `InFlightHasJob`: a report nobody works on and nobody will enqueue | 2 workers, fault `abandon` |
| `FramePull` | `PulledIsStored`, `AdmittedPerWindow`, the refinement `PullsAreAtomic`, and under fairness `EveryPullEnds` | 1 frame, 2 threads, 2 attempts, 3 requests per run of the API, 2 requests per window of 1, clock to 2 |
| `Assistant` | `CitedIsRecord`, and under fairness `EveryAskEnds` | 1 question, 2 iterations, 1 thread, 1 frame, 1 image, 1 report, 1 invented id, 1 backend besides the default, 1 attempt of a pull |

Most runs check the type invariant of their module too; that of `LeaseQueue` is
part of the one of `Reports`, and that of `FramePull` is proved. But for
`NoLostJob`, the safety properties of `LeaseQueue_live` hold with messages lost
before a claim or after a commit as well: their theorems make no assumption about
these faults.

Why these bounds: two attempts are the fewest with a retry and an exhausted row; of
two workers one dies or holds a stale lease while the other goes on (the theorems
are for any number of them); two reclaimers take rows from each other's claims and
put two messages of one pending row in the stream, and three messages are enough for
that and a retry; in `LeaseQueue_live`, where nothing but the attempts bounds them,
the embedding job runs as well. Two jobs suffice for the chain, since no action
involves three. Three buckets of a window are the fewest where a stale read may
supersede the wrong one, and the fourth, of another window, shows that windows keep
apart. Three fragments give two nested buckets and a late fragment. Messages are
bounded by attempts and `MaxRequests`. In `Reports` two workers are a stale holder
and its successor, and two requests the two sides of the race between reading the
status and writing it. The cfg's CONSTRAINT ends a behaviour at its first race,
since all that is promised of a report is promised up to there and `raced` stays;
the race itself is a state of the run. It also ends where a request that read the
status before the last message writes after it and sends one more. What holds behind
it, `OnlyLatestAttemptCommits`, is proved for all states, for any number of workers,
requests and reclaimers. The processes of `Reports` and of `LeaseQueue_hostile` are
alike, and neither checks a liveness property, so their symmetry is sound.
`Reports_stuck` has no scripts: it shows what the system does by itself. In `Images`
two workers are a stale holder and its successor, or the two embeddings side by
side; a script that resets rows (`MaxOps`) gives a job its attempts back, which is
a second life of each phase, and a second script meets what the first has left: it is
a replay followed by `reembed_captions` that makes `ReembedPassesOver` possible.
Without its exception `SucceededIsEmbedded` fails there. The CONSTRAINT
leaves out what happens after both a script and the end of the row: nothing is
promised of an image without row, the row does not come back, and its end is one of
the ends of `CaptionedIsEmbedded`; late workers that find the row gone are followed
where no script has run. It also leaves out second scripts, and scripts beside the
pruning, on an image whose caption or pixel embedding is not done: the invariants
are proved there too, for any number of scripts, while `CaptionedIsEmbedded` is
checked for one script anywhere and for two on an image done that far.

In `Signals` the deliveries are the ones at which rules differ: a first activity
before dawn, a window in two versions, a slow late morning; the replays are the days
the rules were written for. A second script of `rederive_markers` finds nothing more
on these days: losing a marker takes a row that lacks markers of both `--produce`
sets. In `FramePull` two threads are the winner and the loser of each race, and a
third request finds what they left; a limit of two with a clock that moves twice
lets an old stamp wait behind a younger one that still counts. In `Assistant` two
iterations are a call and the answer made of it; one image (pruned or not), one
frame (absent, pulled, indexed), one report (generated by the turn) and one invented
id are one of each kind the citation check could confuse, and the short marker
abbreviates two of them. The instance has no events: what a call may show of them is
`Shown`, a set with one more id. Its clock moves once and its windows admit one
request; a pull gives up at its first failure, its retries being those of the run
`FramePull`. The proofs cover what these bounds leave out.

Deadlock is checked in the runs of the queue, where ticks go on for ever, and in
`Signals`; not where the modelled work simply ends.

### Fairness

`LeaseQueue`: weak fairness of each worker's and each reclaimer's loop, of the
XADD that follows a commit and of the passing of time (`Expire`): each is a
process or a thread that runs unless it fails, and supervision leaves one
worker alive. Strong fairness of the reclaimer's two writes: ticks may fail,
but not each time a row is found, which is what an outage that ends means.
Submissions and faults are never forced. A dead worker's successor is another
worker of the constant, since each process has its own worker id. `Intake`:
weak fairness of the event loop, the finalizer and the quiet period, strong
fairness of the ingest, which the finalizer repeats every few seconds. `Images`:
weak fairness of what each worker does when nothing fails (`Work`), of the reclaim
of each row, which `EveryJobSettles` justifies, and of the end of a script's
transaction, be it a commit or a rollback; no script ever has to run. No
worker is forced to fail, and one that fails each time uses the attempts up: the job
is dead-lettered. A commit waits for a row a script holds, which is held `MaxOps` times at most.

`FramePull` and `Assistant`: weak fairness of each thread and of the agent's loop,
since the calls they make have a timeout or are local, and nothing is retried
without a bound; neither new requests nor restarts are forced. The errors of the
database (`DatabaseFails`) are not part of the fair `PullStep`: the INSERT that waits
for the row of another request has no timeout, and only the end of the other
transaction lets it go on. A third request may overtake it there as often as
`MaxPulls` and the rate limit admit between two restarts. A turn ends although no
fairness is asked of the pull it waits for: the client's timeout is a step of the
turn.

## Proofs

Each `*_proofs` module proves for any number of jobs, workers, attempts,
buckets, fragments, threads or requests what its run checks on an instance. The
assumptions on constants are those each module names. Every safety property of a
passing run is proved, but for `ReplayAsDocumented`.

* `LeaseQueue_proofs`. `TypeCorrect`; `LeaseCorrect`: owner and state agree and
  an owner at work holds the latest attempt (`LeaseInv`), with any faults and
  reclaimers. `Fencing` (`OnlyLatestAttemptCommits`) follows from it: a release
  matches `lease_owner`, and a claim on top of an older one changes the owner.
  `BoundedAttempts` (`AttemptsBounded`) needs one reclaimer: `claim_job` does
  not look at `max_attempts`, so the bound rests on snapshots that are still
  true when the rows are written (`SnapshotInv`), which a second reclaimer
  breaks. `NothingLost` (`NoLostJob`) needs `preclaim` and `postcommit`
  excluded, and `TodoInv`: nothing is left to send when a worker acks.
  With one reclaimer and heartbeats that hold (`lapse` excluded) `ExpiredInv` is
  inductive too: a lapsed row has no holder at work, so that what the reclaimer
  selected cannot move before it is written, and whoever executes owns the row.
  Hence `OneExecution` (`NoConcurrentExecution`), `LeasesRunOut`
  (`RunningLeaseNotReclaimed`) and `FollowsLifecycle`: every step maps to a step
  of `JobLifecycle` or to a stutter. The claim of the lifecycle, which looks at
  the attempts, is where `AttemptsBounded` is needed, its reclaim where the
  snapshot must be true. Both assumptions are necessary: TLC finds
  `RowsFollowLifecycle` violated with two reclaimers, and `TerminalIsFinal` with
  `lapse` (`LeaseQueue_frozen_snapshot`). Under both, `ResultsAreFinal` proves
  `TerminalIsFinal`, which is the other half of that finding: while there is one
  reclaimer, nothing but a lease that a live worker loses lets it reset a
  committed result. `DeadLettered` (`DeadLetterInv`) holds with any number of
  reclaimers and lapsing leases: unless a process dies or an XADD fails after a
  commit, a job that failed for good is in the DLQ, or the worker or reclaimer
  that failed it is about to send it there.
* `Summaries_proofs`. `SeenInv`: what a transaction selected is a committed row
  of its window. `OnceInv`: a job nobody replayed commits once. With them
  `AlwaysALatest`, `SupersedingEnds` and, replays included, `EmbeddingJobs`.
  Two theorems say what `Summaries_rollup` is an instance of. With the names of
  the code, `ScopeId # CameraId`, nothing is ever rolled up (`NothingRolledUp`);
  with `ScopeId = CameraId`, the only thing changed, `CoveredIsRolledUp` holds in
  every state (`RolledUpIfNamesAgree`), racing workers and replays included: only
  commits change what is counted and found (`OnlyCommitsCount`), and each of them
  looks at what it has just written.
* `Intake_proofs`. `WindowInv` ties done marker, hash and buckets: nothing is
  being stored once the marker is set, and until the hash is deleted it holds
  what every bucket holds; hence `NestedBuckets`. `HashInv` gives
  `AcceptedKept`. `DuplicatesKept` proves that a retry answered
  "duplicate" is one of a fragment that is kept as long as no command fails:
  with a failure between dedup key and hash, TLC finds `DuplicateIsKept` violated.
* `Images_proofs`. `LeaseInv`, `PruneInv`, `StoredInv` (a vector that was stored
  stays until the image is pruned) and `KnownInv` (the holder of a lease knows
  what there is to do: only the job of a phase writes its column, so what it
  loaded stays true while it holds the lease, but for `unbacked`) give `PointsComeFirst`,
  `CaptionsChain`, `SettledIsEmbedded` and `RowsHaveFiles` for any number of
  workers, attempts and scripts. `UsesQueueAsSpecified` (`RowsFollowQueue`) maps
  every step to one of `JobLifecycle` or to the restart of one job by a script.
  It needs `ClaimInv`: a row that can be claimed has attempts left, although no
  claim looks at them and scripts reset them, and a caption job that is a no-op
  has both embedding jobs behind it, which remain when the image is pruned.
* `Reports_proofs`. `StatusInv`, which holds until a race (`UnracedInv`): one
  worker at most has still to write the status or the file; the job it has in hand
  waits for no claim, the report is not there yet, the file is as far as its phase
  says; and what the path in the row leads to is whole, or deleted. `SpentInv`: a
  reclaimer never finds an attempt left, which is what keeps two workers apart,
  since the executor looks at no lease. `SingleGenerator`, `SucceededJobs` and
  `SuccessStays` follow under any faults, for any number of workers, reclaimers,
  requests at a time and scripts. `Undisturbed` proves that the race they except
  takes two requests at a time or a replay: with one (`OneClient`) and none
  (`NoReplay`), `UndisturbedInv` says that a job in hand shows in the status, where
  a request stops at it. What a race cannot do is proved of all states.
  `ResetsAreFenced`: although a reset takes `attempt_count` back to 0, so that two
  claims have the same number, `LeaseInv` survives it (`ReportLease`), for the
  owner is taken with it, and a worker of before the reset never commits.
  `ResetsAreDelivered`: each reset is followed by its message, so that
  `NoLostJob` carries over from the queue, under the same condition as there.
  `InFlight` is the other half of the finding of `Reports_stuck`: if no worker errs
  or dies and heartbeats hold, `InFlightHasJob` holds. `HeldInv` says why: a
  leased job is at work in its owner's hands and its lease does not end, so that no
  reclaimer ever has a row of it; and a worker that failed while it owns the job
  has written so in the status before it releases (`VerdictInv`).
* `FramePull_proofs`, first on the limiter. The deque is a suffix of the history
  of admissions
  (`GoesWith`): it holds the stamps of the last of them, and those of the others
  are more than a window old. When a request is admitted, those of its window
  that are counted are still in the deque, so that there are fewer than `Max`
  (`WithinLimit`), for any limit, window and interleaving, although the deque need
  not be sorted. On the pulls: `FrameInv` says of each thread what it relies on (`Good`: a
  row whose transaction is open is nobody else's and not stored, a thread about
  to commit has written the whole file), of each stored frame that it has file
  and job (`Filed`), and that no two threads have the row of one frame in an open
  transaction (`Apart`). `PulledFrames` and `LimitHolds` follow, and
  `PullsRefineAtomic`: every step of a thread is silent, or one step of `AtomicPull`
  (`RestIsSeen`). The commit is its `Create` because a frame in an open transaction
  is not stored (`Good`), the look-up and the reload are its `Find` because a stored
  row is complete (`Filed`), and every other response is its `Refuse`.
* `Assistant_proofs`. Every step of the agent is a step of the pulls or leaves
  them alone (`PullsOrAround`), so `PulledFramesInUse`, `BothLimitsHold` and
  `PullsAtomicInUse` carry over from the modules below. `CitationsAreRecords`: all ids a turn knows are of records that
  exist or existed, or the model's own (`Grounded`), because every read shows
  such ids only (`RealInv`: sources, points and stored rows stay in that set).

* `Signals_proofs`, first on the pure rules: a history is of natural numbers
  (`PastOK`), a median of first hours is an hour (`MedianInNat`), and a late start
  comes two hours after midnight or later, on a day without activity before it
  and after windows that end by midnight: those are the two quiet hours a start
  asks for (`QuietSinceMidnight`, `LateStartStarts`). Of rows, `RowsOK` says that
  the markers of each are sound (`Sound`): whatever a history rule puts there
  fires on the past as it is now, and all that `ingest_bucket` would derive is
  there, unless the row is in `overtaken`. This is inductive because an ingested
  bucket changes the past of later rows only, which are overtaken from then on (`IngestSound`), and because a script writes back what it has loaded
  and what it derives, both sound (`ApplySound`): what it loaded stays sound for
  as long as it runs (`ScriptInv`), so that racing scripts may take markers away
  but never leave a wrong one, and never one that `ingest_bucket` had derived.
  Hence `Rederivable`, `OneStart` and `LateStarts` for any number of scripts,
  deliveries and workers. `JobInv` and `WorkInv` say that a job that succeeded,
  and a worker that executed, has the events of the markers its bucket came with
  (which no script removes). `EventInv` says that every event, and every one a
  worker is about to insert, has its marker; it needs what a script has loaded to
  be what the row still has, and so one script at a time (`OneScript`), as do
  `TypeCorrect` and `EventsHaveMarkers`.

The proofs of `Reports` and `Assistant` reuse the lemmas of the modules they
extend: their steps are steps of `LeaseQueue` or `FramePull`, but for the resets of
the API and of the replay. `CommitIsLatest` is one of these lemmas: given
`LeaseInv`, a commit is one of the latest attempt, in the queue and in `Reports`.

Model-checked only: `ReplayAsDocumented`, which is a computation on the concrete
days of the replays, and the liveness
properties (`EveryJobSettles`, `AcceptedIsIngested`, `CaptionedIsEmbedded`,
`EveryPullEnds`, `EveryAskEnds`): liveness under fairness and ENABLED are out of
its reach too.

## Findings

The three runs expected to be violated each show a disagreement between the code
and what a comment or a document of it says; `PROJECT.json` quotes them. Of each
the proofs have the other half: what has to be different for the property to hold
(`ResultsAreFinal`, `InFlight`, `RolledUpIfNamesAgree`).

Met along the way, and described under the hazards where a property is near:

* Queue. Two reclaimers select the same row, since their locks end with the
  SELECT's transaction. A worker that dies between XREADGROUP and its claim
  leaves an entry that the reclaimer acknowledges, and a row nobody offers again;
  so does an XADD that fails, for the scan for pending rows that
  `cognia.py:362-363` counts on does not exist. Stale entries are acknowledged
  before their replacement is sent.
* Summaries. `summary_db.py:52` says "previous version + 1", but two racing
  transactions write equal versions, both latest. A replayed job of a superseded
  summary leaves its window without a latest one.
* Intake. A fragment is lost between its dedup key and its hash; detections that
  come after the done marker are discarded, and after an hour make a second,
  partial bucket.
* Images. `reembed_images --force` leaves a job no worker can claim.
  `reembed_captions` run after a replay does not lock a job that is pending
  (`reembed_captions.py:64`): a worker that claims it before the script commits reads
  the old 'success', does nothing and succeeds, and the row stays 'pending' with
  nobody to embed it. A vector stored after its image was pruned stays.
* Reports. Two overlapping requests, or a replay, reset a job that is running; two
  workers then write one file. A report whose file was pruned stays `success`
  without a path, and the API, which reuses it, never has it generated again.
* Signals. A day starts twice when an earlier window is ingested later, and not
  at all when one to four detections precede it (`derive.py:286` looks for any
  activity, a start needs five). Markers that `rederive_markers` adds have no
  events before `backfill_events` runs, since an event job is made once per
  bucket; two runs of it may take each other's markers away. `late_finalized` is
  declared and never produced. Novelties have an event type (`build.py:60-61`) and
  no event. The docstring of `scenario_start_of_day` has its first active bucket
  "at ~06:00 UTC" (`replay_buckets.py:380`), the code puts it at 03:00
  (`quiet_hours = 3`, line 390): `ReplayAsDocumented` follows the code in the hour,
  and the docstring in that it fires exactly once.
* Frame pulls. An XADD that fails after the commit leaves a caption job pending
  for ever. The limiter reads its clock before taking the lock, so that a request
  that waited may come on top of the limit of a window.
* Agent. A model can verify an id it invented by calling a tool with it: queries,
  scopes and error messages repeat it (`docs/AGENT.md:173-174` says otherwise).
  A citation may be of an image that has been pruned. A timed-out pull goes on
  and commits. A summary hit shows the id of its Qdrant point, which
  `get_summary` does not know.

## Not modelled, and why

* The rollup worker: no code inserts its job (`NothingRolledUp`). Modelling it
  against children that cannot be found would show nothing.
* Health, operator UI, authentication, model clients, schema and migrations:
  read-only, stateless or declarative; what others rely on of them is in the
  guards that use it.
* Texts and numbers no property tells apart: prompts and model outputs, reports'
  contents, titles and severities of events, confidences of markers, the activity
  score, ranking and filters of searches.
* The effect of a summary's embedding (its Qdrant point), `reembed_summaries` and
  `prune_jobs`.
* `dlq_replay` in `LeaseQueue` itself: replays are modelled where they have an
  effect on data, in `Summaries`, `Images` and `Reports`, there over the whole queue.
  What its `--ack` deletes from the DLQ is not looked at.
* The age a report must have to be pruned: any that succeeded may be.
* In `FramePull`, a database connection that breaks while the file is being
  written, and a clock that steps back; in `Images`, a trailer that pushes an image
  again when its row has been pruned; in `Signals`, cameras that change their
  alias and the cache of aliases.
* `scenario_workday` of the replays, `rederive_markers --overwrite-all`,
  `dev_fake_trailer` and `seed_synthetic`.

What could be added: the summary embedding with its re-embedding beside
`Summaries`, and a replay script as one more writer of the rows of `LeaseQueue`
with several jobs.
