----------------------------- MODULE LeaseQueue -----------------------------
(***************************************************************************)
(* The job queue every Panoptic worker runs on: job rows in Postgres       *)
(* (panoptic_jobs), messages in a Redis stream read through one consumer   *)
(* group, workers that claim, execute and release under a lease kept alive *)
(* by a heartbeat thread, and the reclaimer process that recovers what     *)
(* crashed workers leave behind.                                           *)
(*   src/shared/utils/leases.py      claim, renew, release, reclaim        *)
(*   src/shared/utils/streams.py     XADD, XREADGROUP, XACK, XAUTOCLAIM    *)
(*   src/services/panoptic_*/worker.py   _process_message, run_worker      *)
(*   src/services/panoptic_reclaimer/worker.py   the reclaimer's loop      *)
(*                                                                         *)
(* One action is one Postgres transaction or one Redis command, so every   *)
(* interleaving of the processes between them is explored.  Wall-clock     *)
(* time is abstracted to the flag lapsed[j]: lease_expires_at < now().     *)
(* The states 'running' and 'cancelled' are left out: no code writes them. *)
(* 'succeeded' stands for 'degraded' too, which every step treats alike.   *)
(***************************************************************************)
EXTENDS Naturals, Sequences, FiniteSets

CONSTANTS
  Jobs,         \* rows of panoptic_jobs
  Workers,      \* worker process instances (generate_worker_id is unique per process)
  Reclaimers,   \* reclaimer processes
  NoWorker,     \* lease_owner IS NULL
  MaxAttempts,  \* panoptic_jobs.max_attempts
  Downstream,   \* Downstream[j]: jobs the executor of j inserts with its results
  Faults        \* which failures the environment may inject

(***************************************************************************)
(* "abandon"     a worker dies, or its transaction fails, holding a lease  *)
(* "preclaim"    a worker dies, or its claim fails, after XREADGROUP       *)
(* "postcommit"  a process that committed a pending row dies, or Redis     *)
(*               refuses its XADD, before the message is in the stream     *)
(* "lapse"       the lease of a live, executing worker expires: its        *)
(*               heartbeat failed for LEASE_TTL_SECONDS                    *)
(***************************************************************************)
FaultKinds == {"abandon", "preclaim", "postcommit", "lapse"}

ASSUME ConstantsAssumption ==
  /\ NoWorker \notin Workers
  /\ MaxAttempts \in Nat \ {0}
  /\ Downstream \in [Jobs -> SUBSET Jobs]
  /\ Faults \subseteq FaultKinds

VARIABLES
  \* Postgres: the row of each job
  state, owner, lapsed, attempts,
  \* Redis: undelivered entries, XADDs so far per job, pending entries list, DLQ
  stream, sent, pel, dlq,
  \* webhook / API processes: rows inserted whose XADD is still to come
  outbox,
  \* workers: program counter, message in hand, ClaimResult.attempt_count,
  \* LeaseHeartbeat._valid, downstream rows committed and still to be XADDed
  pc, msg, claim, valid, todo,
  \* reclaimers: program counter, rows selected, reset_jobs, row to dead-letter
  rpc, rows, reset, doomed

row     == <<state, owner, lapsed, attempts>>
redis   == <<stream, sent, pel, dlq>>
worker  == <<pc, msg, claim, valid, todo>>
reclaim == <<rpc, rows, reset, doomed>>
vars    == <<row, redis, outbox, worker, reclaim>>

JobState    == {"absent", "pending", "leased", "retry_wait", "succeeded", "failed_terminal"}
Outcome     == {"succeeded", "retry_wait", "failed_terminal"}
Terminal    == {"succeeded", "failed_terminal"}
Entry       == [job : Jobs, n : Nat]      \* the n-th message ever sent for a job
NoEntry     == [job |-> NoWorker, n |-> 0]
Snapshot    == [job : Jobs, attempts : Nat]
WorkerPc    == {"idle", "received", "executing", "enqueueing", "deadlettering", "acking", "dead"}
ReclaimerPc == {"sleeping", "resetting", "deadlettering", "reenqueueing"}

Roots == {j \in Jobs : \A p \in Jobs : j \notin Downstream[p]}
Alive == {w \in Workers : pc[w] # "dead"}

TypeOK ==
  /\ state \in [Jobs -> JobState]
  /\ owner \in [Jobs -> Workers \cup {NoWorker}]
  /\ lapsed \in [Jobs -> BOOLEAN]
  /\ attempts \in [Jobs -> Nat]
  /\ stream \in Seq(Entry)
  /\ sent \in [Jobs -> Nat]
  /\ pel \in SUBSET Entry
  /\ dlq \in SUBSET Jobs
  /\ outbox \in SUBSET Jobs
  /\ pc \in [Workers -> WorkerPc]
  /\ msg \in [Workers -> Entry \cup {NoEntry}]
  /\ claim \in [Workers -> Nat]
  /\ valid \in [Workers -> BOOLEAN]
  /\ todo \in [Workers -> SUBSET Jobs]
  /\ rpc \in [Reclaimers -> ReclaimerPc]
  /\ rows \in [Reclaimers -> SUBSET Snapshot]
  /\ reset \in [Reclaimers -> SUBSET Jobs]
  /\ doomed \in [Reclaimers -> Jobs \cup {NoWorker}]
  /\ \A w \in Workers : pc[w] \notin {"idle", "dead"} => msg[w] \in Entry
  /\ \A r \in Reclaimers : rpc[r] = "deadlettering" => doomed[r] \in Jobs

Init ==
  /\ state = [j \in Jobs |-> "absent"]
  /\ owner = [j \in Jobs |-> NoWorker]
  /\ lapsed = [j \in Jobs |-> FALSE]
  /\ attempts = [j \in Jobs |-> 0]
  /\ stream = <<>>
  /\ sent = [j \in Jobs |-> 0]
  /\ pel = {}
  /\ dlq = {}
  /\ outbox = {}
  /\ pc = [w \in Workers |-> "idle"]
  /\ msg = [w \in Workers |-> NoEntry]
  /\ claim = [w \in Workers |-> 0]
  /\ valid = [w \in Workers |-> TRUE]
  /\ todo = [w \in Workers |-> {}]
  /\ rpc = [r \in Reclaimers |-> "sleeping"]
  /\ rows = [r \in Reclaimers |-> {}]
  /\ reset = [r \in Reclaimers |-> {}]
  /\ doomed = [r \in Reclaimers |-> NoWorker]

-----------------------------------------------------------------------------
(* Shared steps *)

\* XADD: a fresh entry at the end of the job's stream.
XAdd(j) ==
  /\ stream' = Append(stream, [job |-> j, n |-> sent[j] + 1])
  /\ sent' = [sent EXCEPT ![j] = @ + 1]

\* The columns every UPDATE of a row that ends a lease writes.
WriteRow(j, s) ==
  /\ state' = [state EXCEPT ![j] = s]
  /\ owner' = [owner EXCEPT ![j] = NoWorker]
  /\ lapsed' = [lapsed EXCEPT ![j] = FALSE]

\* w is between claim and release of j: the span of its LeaseHeartbeat.
Executing(w, j) == pc[w] = "executing" /\ msg[w].job = j

\* Mutant: claims whose heartbeat was never started.
NobodyRenews(j) == FALSE

\* The holder of j's lease is still at work, its heartbeat renewing.
HolderAtWork(j) == \E w \in Workers : owner[j] = w /\ Executing(w, j)

-----------------------------------------------------------------------------
(* Producers: insert the job row, commit, then XADD *)

Submit(j) ==
  /\ j \in Roots
  /\ state[j] = "absent"
  /\ state' = [state EXCEPT ![j] = "pending"]
  /\ outbox' = outbox \cup {j}
  /\ UNCHANGED <<owner, lapsed, attempts, redis, worker, reclaim>>

Publish(j) ==
  /\ j \in outbox
  /\ XAdd(j)
  /\ outbox' = outbox \ {j}
  /\ UNCHANGED <<row, pel, dlq, worker, reclaim>>

\* The error is logged and swallowed, or the process is gone.
PublishFails(j) ==
  /\ "postcommit" \in Faults
  /\ j \in outbox
  /\ outbox' = outbox \ {j}
  /\ UNCHANGED <<row, redis, worker, reclaim>>

-----------------------------------------------------------------------------
(* Workers *)

\* XREADGROUP '>' COUNT 1: the entry moves from the stream to the PEL.
ConsumeNext(w) ==
  /\ pc[w] = "idle"
  /\ stream # <<>>
  /\ msg' = [msg EXCEPT ![w] = Head(stream)]
  /\ stream' = Tail(stream)
  /\ pel' = pel \cup {Head(stream)}
  /\ pc' = [pc EXCEPT ![w] = "received"]
  /\ UNCHANGED <<row, sent, dlq, outbox, claim, valid, todo, reclaim>>

ToIdle(w) ==
  /\ pc' = [pc EXCEPT ![w] = "idle"]
  /\ msg' = [msg EXCEPT ![w] = NoEntry]

\* UPDATE ... WHERE state = 'pending', committed at once; the heartbeat starts.
ClaimJob(w) ==
  LET j == msg[w].job IN
  /\ pc[w] = "received"
  /\ state[j] = "pending"
  /\ state' = [state EXCEPT ![j] = "leased"]
  /\ owner' = [owner EXCEPT ![j] = w]
  /\ lapsed' = [lapsed EXCEPT ![j] = FALSE]
  /\ attempts' = [attempts EXCEPT ![j] = @ + 1]
  /\ claim' = [claim EXCEPT ![w] = attempts[j] + 1]
  /\ valid' = [valid EXCEPT ![w] = TRUE]
  /\ pc' = [pc EXCEPT ![w] = "executing"]
  /\ UNCHANGED <<redis, outbox, msg, todo, reclaim>>

\* Not pending any more: no ACK, the entry stays in the PEL.
ClaimRefused(w) ==
  /\ pc[w] = "received"
  /\ state[msg[w].job] # "pending"
  /\ ToIdle(w)
  /\ UNCHANGED <<row, redis, outbox, claim, valid, todo, reclaim>>

\* One round of the heartbeat thread: renewal, or the discovery that the
\* lease is gone, after which the thread ends.
RenewLease(w) ==
  LET j == msg[w].job IN
  /\ pc[w] = "executing"
  /\ valid[w]
  /\ IF owner[j] = w /\ state[j] = "leased"
       THEN lapsed' = [lapsed EXCEPT ![j] = FALSE] /\ UNCHANGED valid
       ELSE valid' = [valid EXCEPT ![w] = FALSE] /\ UNCHANGED lapsed
  /\ UNCHANGED <<state, owner, attempts, redis, outbox, pc, msg, claim, todo, reclaim>>

\* Rows the results bring along: INSERT ... ON CONFLICT (job_key) DO NOTHING.
Inserted(j, s) ==
  IF s = "succeeded" THEN {c \in Downstream[j] : state[c] = "absent"} ELSE {}

\* Mutant: WHERE lease_owner = worker_id dropped from release_job.
ReleaseUnowned(w, s) ==
  LET j == msg[w].job IN
  /\ pc[w] = "executing"
  /\ valid[w]
  /\ state' = [state EXCEPT ![j] = s]
  /\ owner' = [owner EXCEPT ![j] = NoWorker]
  /\ lapsed' = [lapsed EXCEPT ![j] = FALSE]
  /\ pc' = [pc EXCEPT ![w] = "acking"]
  /\ UNCHANGED <<attempts, redis, outbox, msg, claim, valid, todo, reclaim>>

\* Mutant: downstream rows committed, their messages never sent.
ReleaseSilently(w, s) ==
  LET j == msg[w].job IN
  /\ pc[w] = "executing"
  /\ owner[j] = w
  /\ valid[w]
  /\ state' = [c \in Jobs |-> IF c = j THEN s
                              ELSE IF c \in Inserted(j, s) THEN "pending"
                              ELSE state[c]]
  /\ owner' = [owner EXCEPT ![j] = NoWorker]
  /\ lapsed' = [lapsed EXCEPT ![j] = FALSE]
  /\ pc' = [pc EXCEPT ![w] = IF s = "failed_terminal" THEN "deadlettering" ELSE "acking"]
  /\ UNCHANGED <<attempts, redis, outbox, msg, claim, valid, todo, reclaim>>

\* release_job matched a row and the heartbeat is valid: results, downstream
\* rows and the new state s become durable in one commit.  s is the executor's
\* own verdict, at any attempt, or retry_wait / failed_terminal for an exception.
ReleaseAndCommit(w, s) ==
  LET j == msg[w].job IN
  /\ pc[w] = "executing"
  /\ owner[j] = w
  /\ valid[w]
  /\ state' = [c \in Jobs |-> IF c = j THEN s
                              ELSE IF c \in Inserted(j, s) THEN "pending"
                              ELSE state[c]]
  /\ owner' = [owner EXCEPT ![j] = NoWorker]
  /\ lapsed' = [lapsed EXCEPT ![j] = FALSE]
  /\ todo' = [todo EXCEPT ![w] = Inserted(j, s)]
  /\ pc' = [pc EXCEPT ![w] = CASE s = "succeeded"       -> "enqueueing"
                               [] s = "failed_terminal" -> "deadlettering"
                               [] s = "retry_wait"      -> "acking"]
  /\ UNCHANGED <<attempts, redis, outbox, msg, claim, valid, reclaim>>

\* release_job matched no row, or the heartbeat saw the lease go: rollback.
AbortStolen(w) ==
  /\ pc[w] = "executing"
  /\ owner[msg[w].job] # w \/ ~valid[w]
  /\ ToIdle(w)
  /\ UNCHANGED <<row, redis, outbox, claim, valid, todo, reclaim>>

EnqueueDownstream(w) ==
  /\ pc[w] = "enqueueing"
  /\ \E c \in todo[w] :
       /\ XAdd(c)
       /\ todo' = [todo EXCEPT ![w] = @ \ {c}]
  /\ UNCHANGED <<row, pel, dlq, outbox, pc, msg, claim, valid, reclaim>>

EnqueueDownstreamFails(w) ==
  /\ "postcommit" \in Faults
  /\ pc[w] = "enqueueing"
  /\ \E c \in todo[w] : todo' = [todo EXCEPT ![w] = @ \ {c}]
  /\ UNCHANGED <<row, redis, outbox, pc, msg, claim, valid, reclaim>>

EnqueueDlq(w) ==
  /\ pc[w] = "deadlettering"
  /\ dlq' = dlq \cup {msg[w].job}
  /\ pc' = [pc EXCEPT ![w] = "acking"]
  /\ UNCHANGED <<row, stream, sent, pel, outbox, msg, claim, valid, todo, reclaim>>

EnqueueDlqFails(w) ==
  /\ "postcommit" \in Faults
  /\ pc[w] = "deadlettering"
  /\ pc' = [pc EXCEPT ![w] = "acking"]
  /\ UNCHANGED <<row, redis, outbox, msg, claim, valid, todo, reclaim>>

ReadyToAck(w) == pc[w] = "acking" \/ (pc[w] = "enqueueing" /\ todo[w] = {})

\* XACK, always last.
AckMessage(w) ==
  /\ ReadyToAck(w)
  /\ pel' = pel \ {msg[w]}
  /\ ToIdle(w)
  /\ UNCHANGED <<row, stream, sent, dlq, outbox, claim, valid, todo, reclaim>>

-----------------------------------------------------------------------------
(* Worker failures *)

\* Where an error of Postgres or Redis escapes _process_message, and the fault
\* that must be allowed for it.
ErrorEscapes(w) ==
  \/ (pc[w] = "executing" \/ ReadyToAck(w)) /\ "abandon" \in Faults
  \/ pc[w] = "received" /\ "preclaim" \in Faults

MayDie(w) ==
  \/ ErrorEscapes(w)
  \/ pc[w] = "deadlettering" /\ "abandon" \in Faults
  \/ pc[w] = "enqueueing" /\ "postcommit" \in Faults

\* The process dies.  Its supervisor starts another instance under another
\* worker id, so at least one instance is always left.
Die(w) ==
  /\ MayDie(w)
  /\ Alive # {w}
  /\ pc' = [pc EXCEPT ![w] = "dead"]
  /\ msg' = [msg EXCEPT ![w] = NoEntry]
  /\ todo' = [todo EXCEPT ![w] = {}]
  /\ UNCHANGED <<row, redis, outbox, claim, valid, reclaim>>

\* run_worker logs the error and reads the next message; the transaction is
\* rolled back, the entry stays in the PEL.
MessageError(w) ==
  /\ ErrorEscapes(w)
  /\ ToIdle(w)
  /\ todo' = [todo EXCEPT ![w] = {}]
  /\ UNCHANGED <<row, redis, outbox, claim, valid, reclaim>>

-----------------------------------------------------------------------------
(* Time *)

\* lease_expires_at passes: the backoff of a retry, or the lease of a holder
\* that no longer renews it.
Expire(j) ==
  /\ ~lapsed[j]
  /\ \/ state[j] = "retry_wait"
     \/ state[j] = "leased" /\ ~HolderAtWork(j)
  /\ lapsed' = [lapsed EXCEPT ![j] = TRUE]
  /\ UNCHANGED <<state, owner, attempts, redis, outbox, worker, reclaim>>

LapseAtWork(j) ==
  /\ "lapse" \in Faults
  /\ ~lapsed[j]
  /\ state[j] = "leased" /\ HolderAtWork(j)
  /\ lapsed' = [lapsed EXCEPT ![j] = TRUE]
  /\ UNCHANGED <<state, owner, attempts, redis, outbox, worker, reclaim>>

-----------------------------------------------------------------------------
(* Reclaimers *)

\* Mutants of the SELECT: no lease_expires_at < now(); no 'retry_wait'.
ExpiredOrNot == {j \in Jobs : state[j] \in {"leased", "retry_wait"}}
ExpiredLeases == {j \in Jobs : state[j] = "leased" /\ lapsed[j]}

Expired == {j \in Jobs : state[j] \in {"leased", "retry_wait"} /\ lapsed[j]}

\* SELECT ... FOR UPDATE SKIP LOCKED, then commit: the row locks are released.
SelectExpired(r) ==
  /\ rpc[r] = "sleeping"
  /\ rows' = [rows EXCEPT ![r] = {[job |-> j, attempts |-> attempts[j]] : j \in Expired}]
  /\ rpc' = [rpc EXCEPT ![r] = "resetting"]
  /\ UNCHANGED <<row, redis, outbox, worker, reset, doomed>>

\* Mutant: attempt_count > max_attempts where the code has >=.
ResetOnceMore(r) ==
  /\ rpc[r] = "resetting"
  /\ \E x \in rows[r] :
       /\ x.attempts <= MaxAttempts
       /\ WriteRow(x.job, "pending")
       /\ rows' = [rows EXCEPT ![r] = @ \ {x}]
       /\ reset' = [reset EXCEPT ![r] = @ \cup {x.job}]
  /\ UNCHANGED <<attempts, redis, outbox, worker, rpc, doomed>>

\* UPDATE ... WHERE job_id = :job_id, whatever the row holds by now.
ResetToPending(r) ==
  /\ rpc[r] = "resetting"
  /\ \E x \in rows[r] :
       /\ x.attempts < MaxAttempts
       /\ WriteRow(x.job, "pending")
       /\ rows' = [rows EXCEPT ![r] = @ \ {x}]
       /\ reset' = [reset EXCEPT ![r] = @ \cup {x.job}]
  /\ UNCHANGED <<attempts, redis, outbox, worker, rpc, doomed>>

FailExhausted(r) ==
  /\ rpc[r] = "resetting"
  /\ \E x \in rows[r] :
       /\ x.attempts >= MaxAttempts
       /\ WriteRow(x.job, "failed_terminal")
       /\ rows' = [rows EXCEPT ![r] = @ \ {x}]
       /\ doomed' = [doomed EXCEPT ![r] = x.job]
  /\ rpc' = [rpc EXCEPT ![r] = "deadlettering"]
  /\ UNCHANGED <<attempts, redis, outbox, worker, reset>>

ReclaimerDlq(r) ==
  /\ rpc[r] = "deadlettering"
  /\ dlq' = dlq \cup {doomed[r]}
  /\ doomed' = [doomed EXCEPT ![r] = NoWorker]
  /\ rpc' = [rpc EXCEPT ![r] = "resetting"]
  /\ UNCHANGED <<row, stream, sent, pel, outbox, worker, rows, reset>>

ReclaimerDlqFails(r) ==
  /\ "postcommit" \in Faults
  /\ rpc[r] = "deadlettering"
  /\ doomed' = [doomed EXCEPT ![r] = NoWorker]
  /\ rpc' = [rpc EXCEPT ![r] = "resetting"]
  /\ UNCHANGED <<row, redis, outbox, worker, rows, reset>>

\* Entries that may have been idle for LEASE_TTL_SECONDS: heartbeats do not
\* touch an entry's idle time, but a claim follows the read at once.
MayBeStale ==
  {e \in pel : \A w \in Workers : pc[w] = "received" /\ msg[w] = e => "lapse" \in Faults}

\* XAUTOCLAIM + XACK of the entries found idle, some or all of MayBeStale.
AckStale(r, stale) ==
  /\ rpc[r] = "resetting"
  /\ rows[r] = {}
  /\ pel' = pel \ stale
  /\ rpc' = [rpc EXCEPT ![r] = "reenqueueing"]
  /\ UNCHANGED <<row, stream, sent, dlq, outbox, worker, rows, reset, doomed>>

ReEnqueue(r) ==
  /\ rpc[r] = "reenqueueing"
  /\ \E j \in reset[r] :
       /\ XAdd(j)
       /\ reset' = [reset EXCEPT ![r] = @ \ {j}]
  /\ UNCHANGED <<row, pel, dlq, outbox, worker, rpc, rows, doomed>>

ReEnqueueFails(r) ==
  /\ "postcommit" \in Faults
  /\ rpc[r] = "reenqueueing"
  /\ \E j \in reset[r] : reset' = [reset EXCEPT ![r] = @ \ {j}]
  /\ UNCHANGED <<row, redis, outbox, worker, rpc, rows, doomed>>

EndTick(r) ==
  /\ rpc[r] = "reenqueueing"
  /\ reset[r] = {}
  /\ rpc' = [rpc EXCEPT ![r] = "sleeping"]
  /\ UNCHANGED <<row, redis, outbox, worker, rows, reset, doomed>>

\* A Postgres error escapes reclaim_expired_leases, or the process restarts:
\* the tick is dropped with its reset_jobs.
TickFails(r) ==
  /\ rpc[r] # "sleeping"
  /\ \/ "abandon" \in Faults /\ reset[r] = {}
     \/ "postcommit" \in Faults
  /\ rpc' = [rpc EXCEPT ![r] = "sleeping"]
  /\ rows' = [rows EXCEPT ![r] = {}]
  /\ reset' = [reset EXCEPT ![r] = {}]
  /\ doomed' = [doomed EXCEPT ![r] = NoWorker]
  /\ UNCHANGED <<row, redis, outbox, worker>>

-----------------------------------------------------------------------------
(* Specification *)

Produce(j) == Submit(j) \/ Publish(j) \/ PublishFails(j)

\* What a live worker does of its own accord; the heartbeat runs beside it.
Work(w) ==
  \/ ConsumeNext(w) \/ ClaimJob(w) \/ ClaimRefused(w)
  \/ \E s \in Outcome : ReleaseAndCommit(w, s)
  \/ AbortStolen(w)
  \/ EnqueueDownstream(w) \/ EnqueueDownstreamFails(w)
  \/ EnqueueDlq(w) \/ EnqueueDlqFails(w)
  \/ AckMessage(w)

Fail(w) == Die(w) \/ MessageError(w)

Tick(r) ==
  \/ SelectExpired(r)
  \/ ResetToPending(r)
  \/ FailExhausted(r) \/ ReclaimerDlq(r) \/ ReclaimerDlqFails(r)
  \/ \E stale \in SUBSET MayBeStale : AckStale(r, stale)
  \/ ReEnqueue(r) \/ ReEnqueueFails(r)
  \/ EndTick(r)

Next ==
  \/ \E j \in Jobs : Produce(j) \/ Expire(j) \/ LapseAtWork(j)
  \/ \E w \in Workers : Work(w) \/ RenewLease(w) \/ Fail(w)
  \/ \E r \in Reclaimers : Tick(r) \/ TickFails(r)

Spec == Init /\ [][Next]_vars

(***************************************************************************)
(* Every process keeps running and time passes.  Submissions, failures and *)
(* heartbeat losses are never forced, and an outage of Postgres ends: a    *)
(* reclaimer that finds a row tick after tick gets to write it some day.   *)
(***************************************************************************)
Fairness ==
  /\ \A j \in Jobs : WF_vars(Publish(j)) /\ WF_vars(Expire(j))
  /\ \A w \in Workers : WF_vars(Work(w))
  /\ \A r \in Reclaimers : WF_vars(Tick(r))
                            /\ SF_vars(ResetToPending(r)) /\ SF_vars(FailExhausted(r))

FairSpec == Spec /\ Fairness

-----------------------------------------------------------------------------
(* Properties *)

Undelivered(j) == \E i \in DOMAIN stream : stream[i].job = j

\* Somebody is bound to send a message for j.
ToBeSent(j) ==
  \/ j \in outbox
  \/ \E w \in Workers : j \in todo[w]
  \/ \E r \in Reclaimers : j \in reset[r]

(***************************************************************************)
(* A row that is pending is on its way to a worker: a message for it is in *)
(* the stream, in the hands of a worker about to claim, or about to be     *)
(* sent.  Nothing scans for pending rows, so a row without a message would *)
(* wait for ever ("No silent loss", leases.py).                            *)
(***************************************************************************)
NoLostJob ==
  \A j \in Jobs : state[j] = "pending" =>
    \/ Undelivered(j)
    \/ \E w \in Workers : pc[w] = "received" /\ msg[w].job = j
    \/ ToBeSent(j)

(***************************************************************************)
(* No two workers execute one job at the same time ("No duplicate          *)
(* execution": the claim is the guard, messages are duplicated freely).    *)
(***************************************************************************)
NoConcurrentExecution ==
  \A j \in Jobs : \A v, w \in Workers :
    Executing(v, j) /\ Executing(w, j) => v = w

(***************************************************************************)
(* A committed result is final: once a row is succeeded or failed_terminal *)
(* no step of a worker or a reclaimer takes it out of that state.          *)
(***************************************************************************)
TerminalIsFinal ==
  [][\A j \in Jobs : state[j] \in Terminal => state'[j] = state[j]]_vars

(***************************************************************************)
(* A lease that has not expired ends by its holder's release only: the     *)
(* reclaimer resets no row whose lease runs ("each row processed by        *)
(* exactly one reclaimer per tick", RECLAIMER_DESIGN.md).                  *)
(***************************************************************************)
RunningLeaseNotReclaimed ==
  [][\A j \in Jobs : \A w \in Workers :
       owner[j] = w /\ ~lapsed[j] /\ owner'[j] # w
         => Executing(w, j) /\ pc'[w] # "executing"]_vars

(***************************************************************************)
(* Only the latest attempt commits.  Whatever the reclaimer took away in   *)
(* between, a worker that releases a job does it for the attempt it        *)
(* claimed, never over a later one (WHERE lease_owner = worker_id).        *)
(***************************************************************************)
OnlyLatestAttemptCommits ==
  [][\A w \in Workers :
       (pc[w] = "executing" /\ pc'[w] \in {"enqueueing", "deadlettering", "acking"})
         => /\ claim[w] = attempts[msg[w].job]
            /\ state[msg[w].job] = "leased"]_vars

(***************************************************************************)
(* The rows go through the lifecycle of JobLifecycle: whatever messages,   *)
(* leases and snapshots do below, a claim, a release or a reclaim is one   *)
(* step of the row, and no row is claimed more than MaxAttempts times.     *)
(***************************************************************************)
Lifecycle == INSTANCE JobLifecycle
  WITH Jobs <- Jobs, MaxAttempts <- MaxAttempts, Downstream <- Downstream,
       state <- state, attempts <- attempts
RowsFollowLifecycle == Lifecycle!LifecycleSpec

(***************************************************************************)
(* A job that is pending is settled in the end.                            *)
(***************************************************************************)
EveryJobSettles ==
  \A j \in Jobs : state[j] = "pending" ~> state[j] \in Terminal

-----------------------------------------------------------------------------
(* Inductive strengthenings of the invariants above *)

\* A lease has an owner, and its owner, while at work, holds the latest attempt.
LeaseInv ==
  /\ \A j \in Jobs : owner[j] # NoWorker <=> state[j] = "leased"
  /\ \A w \in Workers :
       pc[w] = "executing" /\ owner[msg[w].job] = w => claim[w] = attempts[msg[w].job]

\* Between SELECT and UPDATE nobody claims a row the only reclaimer selected.
SnapshotInv ==
  /\ \A j \in Jobs : state[j] = "absent" => attempts[j] = 0
  /\ \A r \in Reclaimers : \A x \in rows[r] :
       state[x.job] \notin {"absent", "pending"} /\ attempts[x.job] = x.attempts

\* Rows to be XADDed by a worker are gone before it acks or dies.
TodoInv == \A w \in Workers : todo[w] # {} => pc[w] = "enqueueing"

\* What the reclaimer selected is still expired and its holder has gone.
ExpiredInv ==
  /\ \A j \in Jobs : lapsed[j] => ~HolderAtWork(j)
  /\ \A r \in Reclaimers : \A x \in rows[r] : x.job \in Expired
  /\ \A w \in Workers : pc[w] = "executing" => owner[msg[w].job] = w

=============================================================================
