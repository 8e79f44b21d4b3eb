----------------------------- MODULE Summaries -----------------------------
(***************************************************************************)
(* The summaries of one camera-hour (panoptic_summaries, level 'camera'),  *)
(* the rollup state that counts them and the jobs they bring along, as the *)
(* bucket_summary executor writes them in the worker's transaction:        *)
(*   src/services/panoptic_summary_agent/executor.py    run_bucket_summary *)
(*   src/services/panoptic_summary_agent/summary_db.py  upsert_summary,    *)
(*       insert_embedding_job, upsert_rollup_state_and_maybe_enqueue       *)
(*                                                                         *)
(* A bucket id hashes the detections of its window, so one window may have *)
(* several buckets; a summary id hashes its bucket id, so summaries are    *)
(* named by their buckets.  Transactions are READ COMMITTED: a transaction *)
(* is split where its first SELECT may be stale by the time it commits.    *)
(* From the upsert of the rollup state to the commit a transaction holds   *)
(* the lock of the hour's row, so that part is one step.                   *)
(* Claims and leases are those of LeaseQueue: here a job is claimed by one *)
(* worker at a time and commits once.                                      *)
(***************************************************************************)
EXTENDS Naturals, FiniteSets

CONSTANTS
  Buckets,    \* buckets of the hour
  Windows,    \* start times of the bucket windows of the hour
  WindowOf,   \* WindowOf[b]: the window of bucket b
  Expected,   \* expected_children, from the duration of a bucket
  Workers,    \* summary workers at work at the same time
  CameraId,   \* the payload's camera_id
  ScopeId,    \* the scope_id of the camera's summaries, serial_number:camera_id
  NoSummary

ASSUME SummariesAssumption ==
  /\ WindowOf \in [Buckets -> Windows]
  /\ Expected \in Nat \ {0}
  /\ NoSummary \notin Buckets

VARIABLES
  job,          \* state of the bucket_summary job of each bucket
  seen,         \* what the open transaction of the job's worker SELECTed as latest
  version,      \* version column, 0 while there is no row
  latest,       \* is_latest
  supersededBy, \* superseded_by
  present,      \* present_children of the hour, 0 while there is no row
  embeddings,   \* summaries whose embedding_upsert job has been inserted
  rollups,      \* child sets whose rollup_summary job has been inserted
  replayed      \* history: buckets whose finished job an operator has replayed

jobs      == <<job, seen>>
summaries == <<version, latest, supersededBy>>
derived   == <<present, embeddings, rollups>>
vars      == <<jobs, summaries, derived, replayed>>

JobState == {"absent", "pending", "executing", "upserting", "succeeded"}

TypeOK ==
  /\ job \in [Buckets -> JobState]
  /\ seen \in [Buckets -> Buckets \cup {NoSummary}]
  /\ version \in [Buckets -> Nat]
  /\ latest \in [Buckets -> BOOLEAN]
  /\ supersededBy \in [Buckets -> Buckets \cup {NoSummary}]
  /\ present \in Nat
  /\ embeddings \in SUBSET Buckets
  /\ rollups \in SUBSET SUBSET Buckets
  /\ replayed \in SUBSET Buckets

Init ==
  /\ job = [b \in Buckets |-> "absent"]
  /\ seen = [b \in Buckets |-> NoSummary]
  /\ version = [b \in Buckets |-> 0]
  /\ latest = [b \in Buckets |-> FALSE]
  /\ supersededBy = [b \in Buckets |-> NoSummary]
  /\ present = 0
  /\ embeddings = {}
  /\ rollups = {}
  /\ replayed = {}

-----------------------------------------------------------------------------
Written(b) == version[b] > 0
SameWindow(b) == {c \in Buckets : WindowOf[c] = WindowOf[b]}
LatestOf(w) == {c \in Buckets : WindowOf[c] = w /\ latest[c]}
AtWork == {b \in Buckets : job[b] \in {"executing", "upserting"}}

\* INSERT INTO panoptic_jobs with the bucket (a duplicate job_key is no new row).
IngestBucket(b) ==
  /\ job[b] = "absent"
  /\ job' = [job EXCEPT ![b] = "pending"]
  /\ UNCHANGED <<seen, summaries, derived, replayed>>

\* claim_job; then frames, prompt and the call of the model.
ClaimBucket(b) ==
  /\ job[b] = "pending"
  /\ Cardinality(AtWork) < Cardinality(Workers)
  /\ job' = [job EXCEPT ![b] = "executing"]
  /\ UNCHANGED <<seen, summaries, derived, replayed>>

\* Mutant: the embedding job is inserted in a transaction of its own.
SelectLatestEmbedding(b) ==
  /\ job[b] = "executing"
  /\ \E s \in LatestOf(WindowOf[b]) \cup {NoSummary} : seen' = [seen EXCEPT ![b] = s]
  /\ job' = [job EXCEPT ![b] = "upserting"]
  /\ embeddings' = embeddings \cup {b}
  /\ UNCHANGED <<summaries, present, rollups, replayed>>

\* The SELECT of upsert_summary: any one row with is_latest, if there is one.
SelectLatest(b) ==
  LET found == LatestOf(WindowOf[b]) IN
  /\ job[b] = "executing"
  /\ \E s \in IF found = {} THEN {NoSummary} ELSE found : seen' = [seen EXCEPT ![b] = s]
  /\ job' = [job EXCEPT ![b] = "upserting"]
  /\ UNCHANGED <<summaries, derived, replayed>>

\* Mutants: every row of the window superseded; the two ids of the UPDATE
\* exchanged.
UpsertSupersedingAll(b) ==
  /\ version' = [version EXCEPT ![b] = IF seen[b] = NoSummary THEN 1 ELSE version[seen[b]] + 1]
  /\ latest' = [c \in Buckets |->
       IF seen[b] # NoSummary /\ c \in SameWindow(b) THEN FALSE ELSE c = b \/ latest[c]]
  /\ UNCHANGED supersededBy
UpsertExchanged(b) ==
  /\ version' = [version EXCEPT ![b] = IF seen[b] = NoSummary THEN 1 ELSE version[seen[b]] + 1]
  /\ latest' = [c \in Buckets |->
       IF c = b THEN seen[b] = NoSummary ELSE latest[c]]
  /\ supersededBy' = [supersededBy EXCEPT ![b] = seen[b]]

\* INSERT ... ON CONFLICT (summary_id) DO NOTHING, then the old row is superseded.
UpsertSummary(b) ==
  LET old == seen[b] IN
  IF old = b THEN UNCHANGED summaries
  ELSE /\ version' = [version EXCEPT ![b] =
            IF Written(b) THEN @ ELSE IF old = NoSummary THEN 1 ELSE version[old] + 1]
       /\ latest' = [c \in Buckets |->
            IF c = old THEN FALSE ELSE IF c = b /\ ~Written(b) THEN TRUE ELSE latest[c]]
       /\ supersededBy' = [c \in Buckets |-> IF c = old THEN b ELSE supersededBy[c]]

\* coverage_ratio >= 0.5, with least(..., 1.0) of no consequence.
Covered(n) == 2 * n >= Expected

\* SELECT summary_id ... WHERE level = 'camera' AND scope_id = :camera_id.
ChildrenOf(camera) == {c \in Buckets : latest'[c] /\ ScopeId = camera}

\* One more child on every execution, and a rollup job for the children found.
UpsertRollupState(b) ==
  LET children == ChildrenOf(CameraId) IN
  /\ present' = present + 1
  /\ rollups' = IF Covered(present + 1) /\ children # {}
                  THEN rollups \cup {children}
                  ELSE rollups

\* The rest of the transaction and its commit.
CommitSummary(b) ==
  /\ job[b] = "upserting"
  /\ UpsertSummary(b)
  /\ embeddings' = embeddings \cup {b}
  /\ UpsertRollupState(b)
  /\ job' = [job EXCEPT ![b] = "succeeded"]
  /\ seen' = [seen EXCEPT ![b] = NoSummary]
  /\ UNCHANGED replayed

\* Mutant: the failed attempt is subtracted although its count was rolled back.
RollBackTwice(b) ==
  /\ job[b] \in {"executing", "upserting"}
  /\ job' = [job EXCEPT ![b] = "pending"]
  /\ seen' = [seen EXCEPT ![b] = NoSummary]
  /\ present' = present - 1
  /\ UNCHANGED <<summaries, embeddings, rollups, replayed>>

\* The worker dies, errs or loses its lease: everything is rolled back.
RollBack(b) ==
  /\ job[b] \in {"executing", "upserting"}
  /\ job' = [job EXCEPT ![b] = "pending"]
  /\ seen' = [seen EXCEPT ![b] = NoSummary]
  /\ UNCHANGED <<summaries, derived, replayed>>

\* dlq_replay --job-id resets the row whatever its state; of an unfinished job
\* that is a RollBack.  Bound: an operator replays a job once.
ReplayBucket(b) ==
  /\ job[b] = "succeeded"
  /\ b \notin replayed
  /\ job' = [job EXCEPT ![b] = "pending"]
  /\ replayed' = replayed \cup {b}
  /\ UNCHANGED <<seen, summaries, derived>>

Next ==
  \E b \in Buckets :
    \/ IngestBucket(b) \/ ClaimBucket(b) \/ SelectLatest(b) \/ CommitSummary(b)
    \/ RollBack(b) \/ ReplayBucket(b)

Spec == Init /\ [][Next]_vars

-----------------------------------------------------------------------------
(* Properties *)

\* Nobody replayed a job of the window of b.
Unreplayed(b) == SameWindow(b) \cap replayed = {}

(***************************************************************************)
(* Search filters is_latest = true: a window that has a summary has one    *)
(* that search finds (schemas/summary.py), whatever workers race on it.    *)
(* Operators can take it away: the upsert of a superseded summary whose    *)
(* job is replayed inserts nothing, yet supersedes the latest row.         *)
(***************************************************************************)
SomeSummaryIsLatest ==
  \A b \in Buckets : Written(b) /\ Unreplayed(b) => LatestOf(WindowOf[b]) # {}

(***************************************************************************)
(* A superseded summary leads, through superseded_by, to a newer version   *)
(* of the same window: no reader that follows it goes in a circle.         *)
(***************************************************************************)
SupersededByNewer ==
  \A b \in Buckets : Written(b) /\ Unreplayed(b) /\ ~latest[b] =>
    /\ supersededBy[b] \in SameWindow(b)
    /\ version[supersededBy[b]] > version[b]

(***************************************************************************)
(* Every summary that is committed has its embedding job, committed with   *)
(* it, and no job without its summary, replays included.                   *)
(***************************************************************************)
EmbeddingPerSummary == embeddings = {b \in Buckets : Written(b)}

(***************************************************************************)
(* "If coverage_ratio >= 0.5 after the update, attempt to insert a         *)
(* rollup_summary job" (summary_db.py): an hour that is covered and has a  *)
(* latest summary has been rolled up at least once.                        *)
(***************************************************************************)
CoveredIsRolledUp == Covered(present) /\ (\E b \in Buckets : latest[b]) => rollups # {}

-----------------------------------------------------------------------------
(* Inductive strengthenings of the invariants above *)

\* What a transaction has SELECTed is a committed summary of its window.
SeenInv ==
  \A b \in Buckets :
    /\ latest[b] => Written(b)
    /\ seen[b] # NoSummary => seen[b] \in SameWindow(b) /\ Written(seen[b])

\* A job that is not replayed commits once: until then its summary does not exist.
OnceInv == \A b \in Buckets \ replayed : Written(b) <=> job[b] = "succeeded"

=============================================================================
