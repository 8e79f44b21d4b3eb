-------------------------- MODULE LeaseQueue_proofs --------------------------
(***************************************************************************)
(* Theorems about LeaseQueue for every value of its constants: any number  *)
(* of jobs, workers and attempts, any shape of the job chain.              *)
(***************************************************************************)
EXTENDS LeaseQueue, TLAPS

LEMMA InitType == Init => TypeOK
  <1> SUFFICES ASSUME Init PROVE TypeOK
    OBVIOUS
  <1> USE ConstantsAssumption DEF Init, TypeOK
  <1>1. stream \in Seq(Entry)
    OBVIOUS
  <1>2. QED BY <1>1 DEF JobState, WorkerPc, ReclaimerPc

\* A worker past XREADGROUP has a message in hand.
LEMMA WorkerHoldsEntry ==
  ASSUME TypeOK, NEW w \in Workers, pc[w] \notin {"idle", "dead"}
  PROVE  msg[w] \in Entry /\ msg[w].job \in Jobs
  BY DEF TypeOK, Entry

\* The steps of one worker keep the types.
LEMMA WorkerType ==
  ASSUME TypeOK, NEW w \in Workers, Work(w) \/ RenewLease(w) \/ Fail(w)
  PROVE  TypeOK'
  <1> USE ConstantsAssumption DEF TypeOK, row, redis, worker, reclaim
  <1>1. CASE ConsumeNext(w)
    <2>1. Head(stream) \in Entry /\ Tail(stream) \in Seq(Entry)
      BY <1>1 DEF ConsumeNext
    <2>2. QED BY <1>1, <2>1 DEF ConsumeNext, WorkerPc
  <1>2. CASE ClaimJob(w)
    <2>1. msg[w].job \in Jobs /\ attempts[msg[w].job] \in Nat
      BY <1>2, WorkerHoldsEntry DEF ClaimJob
    <2>2. state' \in [Jobs -> JobState] /\ pc' \in [Workers -> WorkerPc]
      BY <1>2 DEF ClaimJob, JobState, WorkerPc
    <2>3. attempts' \in [Jobs -> Nat] /\ claim' \in [Workers -> Nat]
      BY <1>2, <2>1 DEF ClaimJob
    <2>4. QED BY <1>2, <2>2, <2>3 DEF ClaimJob, WorkerPc
  <1>3. CASE ClaimRefused(w)
    BY <1>3 DEF ClaimRefused, ToIdle, WorkerPc
  <1>4. ASSUME NEW s \in Outcome, ReleaseAndCommit(w, s) PROVE TypeOK'
    <2>1. Inserted(msg[w].job, s) \in SUBSET Jobs
      BY <1>4, WorkerHoldsEntry DEF ReleaseAndCommit, Inserted
    <2>2. state' \in [Jobs -> JobState]
      BY <1>4 DEF ReleaseAndCommit, Outcome, JobState
    <2>3. pc' \in [Workers -> WorkerPc]
      BY <1>4 DEF ReleaseAndCommit, Outcome, WorkerPc
    <2>4. QED BY <1>4, <2>1, <2>2, <2>3 DEF ReleaseAndCommit, WorkerPc
  <1>5. CASE AbortStolen(w)
    BY <1>5 DEF AbortStolen, ToIdle, WorkerPc
  <1>6. CASE EnqueueDownstream(w)
    <2>1. PICK c \in todo[w] : XAdd(c) /\ todo' = [todo EXCEPT ![w] = @ \ {c}]
      BY <1>6 DEF EnqueueDownstream
    <2>2. c \in Jobs
      BY <2>1
    <2>3. stream' \in Seq(Entry) /\ sent' \in [Jobs -> Nat]
      BY <2>1, <2>2 DEF XAdd, Entry
    <2>4. todo' \in [Workers -> SUBSET Jobs]
      BY <2>1
    <2>5. QED BY <1>6, <2>3, <2>4 DEF EnqueueDownstream
  <1>7. CASE EnqueueDownstreamFails(w)
    BY <1>7 DEF EnqueueDownstreamFails
  <1>8. CASE EnqueueDlq(w)
    BY <1>8 DEF EnqueueDlq, WorkerPc, Entry
  <1>9. CASE EnqueueDlqFails(w)
    BY <1>9 DEF EnqueueDlqFails, WorkerPc
  <1>10. CASE AckMessage(w)
    BY <1>10 DEF AckMessage, ToIdle, WorkerPc
  <1>11. CASE RenewLease(w)
    BY <1>11 DEF RenewLease
  <1>12. CASE Die(w)
    BY <1>12 DEF Die, WorkerPc
  <1>13. CASE MessageError(w)
    BY <1>13 DEF MessageError, ToIdle, WorkerPc
  <1>14. QED
    BY <1>1, <1>2, <1>3, <1>4, <1>5, <1>6, <1>7, <1>8, <1>9, <1>10, <1>11,
       <1>12, <1>13 DEF Work, Fail

\* So do the steps of one reclaimer.
LEMMA ReclaimerType ==
  ASSUME TypeOK, NEW r \in Reclaimers, Tick(r) \/ TickFails(r)
  PROVE  TypeOK'
  <1> USE ConstantsAssumption DEF TypeOK, row, redis, worker, reclaim
  <1>1. CASE SelectExpired(r)
    BY <1>1 DEF SelectExpired, Expired, Snapshot, ReclaimerPc
  <1>2. CASE ResetToPending(r)
    BY <1>2 DEF ResetToPending, WriteRow, Snapshot, JobState
  <1>3. CASE FailExhausted(r)
    BY <1>3 DEF FailExhausted, WriteRow, Snapshot, JobState, ReclaimerPc
  <1>4. CASE ReclaimerDlq(r)
    BY <1>4 DEF ReclaimerDlq, ReclaimerPc
  <1>5. CASE ReclaimerDlqFails(r)
    BY <1>5 DEF ReclaimerDlqFails, ReclaimerPc
  <1>6. CASE \E stale \in SUBSET MayBeStale : AckStale(r, stale)
    BY <1>6 DEF AckStale, ReclaimerPc
  <1>7. CASE ReEnqueue(r)
    BY <1>7 DEF ReEnqueue, XAdd, Entry
  <1>8. CASE ReEnqueueFails(r)
    BY <1>8 DEF ReEnqueueFails
  <1>9. CASE EndTick(r)
    BY <1>9 DEF EndTick, ReclaimerPc
  <1>10. CASE TickFails(r)
    BY <1>10 DEF TickFails, ReclaimerPc
  <1>11. QED
    BY <1>1, <1>2, <1>3, <1>4, <1>5, <1>6, <1>7, <1>8, <1>9, <1>10 DEF Tick

\* And those of the producers and of time.
LEMMA EnvironmentType ==
  ASSUME TypeOK, NEW j \in Jobs, Produce(j) \/ Expire(j) \/ LapseAtWork(j)
  PROVE  TypeOK'
  <1> USE ConstantsAssumption DEF TypeOK, row, redis, worker, reclaim
  <1>1. CASE Submit(j)
    BY <1>1 DEF Submit, JobState
  <1>2. CASE Publish(j)
    BY <1>2 DEF Publish, XAdd, Entry
  <1>3. CASE PublishFails(j)
    BY <1>3 DEF PublishFails
  <1>4. CASE Expire(j) \/ LapseAtWork(j)
    BY <1>4 DEF Expire, LapseAtWork
  <1>5. QED BY <1>1, <1>2, <1>3, <1>4 DEF Produce

LEMMA NextType == TypeOK /\ [Next]_vars => TypeOK'
  <1>1. ASSUME TypeOK, UNCHANGED vars PROVE TypeOK'
    BY <1>1 DEF TypeOK, vars, row, redis, worker, reclaim
  <1>2. QED BY <1>1, WorkerType, ReclaimerType, EnvironmentType DEF Next

(***************************************************************************)
(* Every variable keeps its type, and whoever must have a message or a row *)
(* in hand has one.                                                        *)
(***************************************************************************)
THEOREM TypeCorrect == Spec => []TypeOK
  BY InitType, NextType, PTL DEF Spec

-----------------------------------------------------------------------------
(* Fencing: a release needs the lease of the latest attempt *)

LEMMA InitLease == Init => LeaseInv
  BY DEF Init, LeaseInv

LEMMA WorkerLease ==
  ASSUME TypeOK, LeaseInv, NEW w \in Workers, Work(w) \/ RenewLease(w) \/ Fail(w)
  PROVE  LeaseInv'
  <1> USE ConstantsAssumption DEF TypeOK, LeaseInv, row, redis, worker, reclaim
  <1>1. CASE ConsumeNext(w)
    BY <1>1 DEF ConsumeNext
  <1>2. CASE ClaimJob(w)
    <2>1. msg[w].job \in Jobs /\ attempts[msg[w].job] \in Nat
      BY <1>2, WorkerHoldsEntry DEF ClaimJob
    <2>2. \A j \in Jobs : owner'[j] # NoWorker <=> state'[j] = "leased"
      BY <1>2, <2>1 DEF ClaimJob
    <2>3. ASSUME NEW v \in Workers, pc'[v] = "executing", owner'[msg'[v].job] = v
          PROVE  claim'[v] = attempts'[msg'[v].job]
      <3>1. CASE v = w
        BY <1>2, <2>1, <3>1 DEF ClaimJob
      <3>2. CASE v # w
        <4>1. pc[v] = "executing" /\ msg[v].job \in Jobs
          BY <1>2, <2>3, <3>2, WorkerHoldsEntry DEF ClaimJob
        <4>2. msg[v].job # msg[w].job
          BY <1>2, <2>1, <2>3, <3>2 DEF ClaimJob
        <4>3. QED BY <1>2, <2>1, <2>3, <3>2, <4>1, <4>2 DEF ClaimJob
      <3>3. QED BY <3>1, <3>2
    <2>4. QED BY <2>2, <2>3
  <1>3. CASE ClaimRefused(w) \/ AbortStolen(w) \/ AckMessage(w) \/ MessageError(w)
    BY <1>3 DEF ClaimRefused, AbortStolen, AckMessage, MessageError, ToIdle
  <1>4. ASSUME NEW s \in Outcome, ReleaseAndCommit(w, s) PROVE LeaseInv'
    <2>1. msg[w].job \in Jobs /\ state[msg[w].job] = "leased"
      BY <1>4, WorkerHoldsEntry DEF ReleaseAndCommit
    <2>2. \A j \in Jobs : owner'[j] # NoWorker <=> state'[j] = "leased"
      BY <1>4, <2>1 DEF ReleaseAndCommit, Inserted, Outcome
    <2>3. pc'[w] # "executing"
      BY <1>4 DEF ReleaseAndCommit, Outcome
    <2>4. ASSUME NEW v \in Workers, pc'[v] = "executing", owner'[msg'[v].job] = v
          PROVE  claim'[v] = attempts'[msg'[v].job]
      <3>1. v # w /\ pc[v] = "executing"
        BY <1>4, <2>3, <2>4 DEF ReleaseAndCommit
      <3>2. msg[v].job \in Jobs
        BY <3>1, WorkerHoldsEntry
      <3>3. QED BY <1>4, <2>4, <3>1, <3>2 DEF ReleaseAndCommit
    <2>5. QED BY <2>2, <2>4
  <1>5. CASE EnqueueDownstream(w) \/ EnqueueDownstreamFails(w)
    BY <1>5 DEF EnqueueDownstream, EnqueueDownstreamFails
  <1>6. CASE EnqueueDlq(w) \/ EnqueueDlqFails(w)
    BY <1>6 DEF EnqueueDlq, EnqueueDlqFails
  <1>7. CASE RenewLease(w)
    BY <1>7 DEF RenewLease
  <1>8. CASE Die(w)
    BY <1>8 DEF Die
  <1>9. QED
    BY <1>1, <1>2, <1>3, <1>4, <1>5, <1>6, <1>7, <1>8 DEF Work, Fail

LEMMA ReclaimerLease ==
  ASSUME TypeOK, LeaseInv, NEW r \in Reclaimers, Tick(r) \/ TickFails(r)
  PROVE  LeaseInv'
  <1> USE ConstantsAssumption DEF TypeOK, LeaseInv, row, redis, worker, reclaim
  <1>1. ASSUME NEW j \in Jobs, NEW s \in {"pending", "failed_terminal"}, WriteRow(j, s),
               UNCHANGED <<attempts, worker>>
        PROVE  LeaseInv'
    <2>1. \A k \in Jobs : owner'[k] # NoWorker <=> state'[k] = "leased"
      BY <1>1 DEF WriteRow
    <2>2. ASSUME NEW v \in Workers, pc'[v] = "executing", owner'[msg'[v].job] = v
          PROVE  claim'[v] = attempts'[msg'[v].job]
      <3>1. pc[v] = "executing" /\ msg[v].job \in Jobs
        BY <1>1, <2>2, WorkerHoldsEntry
      <3>2. QED BY <1>1, <2>2, <3>1 DEF WriteRow
    <2>3. QED BY <2>1, <2>2
  <1>2. CASE ResetToPending(r)
    BY <1>1, <1>2 DEF ResetToPending, Snapshot
  <1>3. CASE FailExhausted(r)
    BY <1>1, <1>3 DEF FailExhausted, Snapshot
  <1>4. CASE SelectExpired(r) \/ ReclaimerDlq(r) \/ ReclaimerDlqFails(r)
    BY <1>4 DEF SelectExpired, ReclaimerDlq, ReclaimerDlqFails
  <1>5. CASE \E stale \in SUBSET MayBeStale : AckStale(r, stale)
    BY <1>5 DEF AckStale
  <1>6. CASE ReEnqueue(r) \/ ReEnqueueFails(r) \/ EndTick(r) \/ TickFails(r)
    BY <1>6 DEF ReEnqueue, ReEnqueueFails, EndTick, TickFails
  <1>7. QED
    BY <1>2, <1>3, <1>4, <1>5, <1>6 DEF Tick

LEMMA EnvironmentLease ==
  ASSUME TypeOK, LeaseInv, NEW j \in Jobs, Produce(j) \/ Expire(j) \/ LapseAtWork(j)
  PROVE  LeaseInv'
  <1> USE ConstantsAssumption DEF TypeOK, LeaseInv, row, redis, worker, reclaim
  <1>1. CASE Submit(j)
    BY <1>1 DEF Submit
  <1>2. CASE Publish(j) \/ PublishFails(j)
    BY <1>2 DEF Publish, PublishFails
  <1>3. CASE Expire(j) \/ LapseAtWork(j)
    BY <1>3 DEF Expire, LapseAtWork
  <1>4. QED BY <1>1, <1>2, <1>3 DEF Produce

LEMMA NextLease == TypeOK /\ LeaseInv /\ [Next]_vars => LeaseInv'
  <1>1. ASSUME LeaseInv, UNCHANGED vars PROVE LeaseInv'
    BY <1>1 DEF LeaseInv, vars, row, worker
  <1>2. QED BY <1>1, WorkerLease, ReclaimerLease, EnvironmentLease DEF Next

(***************************************************************************)
(* A row is leased exactly while it has an owner, and an owner that still  *)
(* executes holds the latest attempt (claim_job, release_job), whatever    *)
(* fails and however many reclaimers race.                                 *)
(***************************************************************************)
THEOREM LeaseCorrect == Spec => [](TypeOK /\ LeaseInv)
  BY InitType, NextType, InitLease, NextLease, PTL DEF Spec

\* Only release_job takes a worker from executing into the steps after a commit.
LEMMA CommitIsRelease ==
  ASSUME TypeOK, [Next]_vars, NEW w \in Workers, pc[w] = "executing",
         pc'[w] \in {"enqueueing", "deadlettering", "acking"}
  PROVE  owner[msg[w].job] = w
  <1> USE DEF TypeOK
  <1>1. ~UNCHANGED pc
    OBVIOUS
  <1>2. PICK v \in Workers : Work(v) \/ RenewLease(v) \/ Fail(v)
    BY <1>1 DEF Next, vars, worker, Produce, Submit, Publish, PublishFails, Expire,
       LapseAtWork, Tick, TickFails, SelectExpired, ResetToPending, FailExhausted,
       ReclaimerDlq, ReclaimerDlqFails, AckStale, ReEnqueue, ReEnqueueFails, EndTick
  <1>3. \A u \in Workers : u # v => pc'[u] = pc[u]
    BY <1>2 DEF Work, Fail, ConsumeNext, ClaimJob, ClaimRefused, ReleaseAndCommit,
       AbortStolen, EnqueueDownstream, EnqueueDownstreamFails, EnqueueDlq,
       EnqueueDlqFails, AckMessage, RenewLease, Die, MessageError, ToIdle
  <1>4. v = w
    BY <1>3
  <1>5. PICK s \in Outcome : ReleaseAndCommit(w, s)
    <2>1. ~(ConsumeNext(w) \/ ClaimJob(w) \/ ClaimRefused(w) \/ AckMessage(w))
      BY DEF ConsumeNext, ClaimJob, ClaimRefused, AckMessage, ReadyToAck
    <2>2. ~(\/ EnqueueDownstream(w) \/ EnqueueDownstreamFails(w)
            \/ EnqueueDlq(w) \/ EnqueueDlqFails(w))
      BY DEF EnqueueDownstream, EnqueueDownstreamFails, EnqueueDlq, EnqueueDlqFails
    <2>3. ~(AbortStolen(w) \/ MessageError(w) \/ Die(w))
      BY DEF AbortStolen, MessageError, Die, ToIdle
    <2>4. ~RenewLease(w)
      BY DEF RenewLease
    <2>5. QED BY <1>2, <1>4, <2>1, <2>2, <2>3, <2>4 DEF Work, Fail
  <1>6. QED BY <1>5 DEF ReleaseAndCommit

\* Whoever releases a job does it for the attempt it claimed.
LEMMA CommitIsLatest ==
  ASSUME TypeOK, LeaseInv, [Next]_vars, NEW w \in Workers,
         pc[w] = "executing", pc'[w] \in {"enqueueing", "deadlettering", "acking"}
  PROVE  claim[w] = attempts[msg[w].job] /\ state[msg[w].job] = "leased"
<1>1. owner[msg[w].job] = w /\ msg[w].job \in Jobs
  BY CommitIsRelease, WorkerHoldsEntry
<1>2. QED BY <1>1, ConstantsAssumption DEF LeaseInv

(***************************************************************************)
(* Whatever fails, however many reclaimers run: a worker that commits does *)
(* so for the latest attempt, while the row is leased to it.               *)
(***************************************************************************)
THEOREM Fencing == Spec => OnlyLatestAttemptCommits
  <1>1. TypeOK /\ LeaseInv /\ [Next]_vars =>
          [\A w \in Workers :
             (pc[w] = "executing" /\ pc'[w] \in {"enqueueing", "deadlettering", "acking"})
               => /\ claim[w] = attempts[msg[w].job]
                  /\ state[msg[w].job] = "leased"]_vars
    BY CommitIsLatest
  <1>2. QED BY <1>1, LeaseCorrect, PTL DEF Spec, OnlyLatestAttemptCommits

-----------------------------------------------------------------------------
(* Attempts: the snapshot of the only reclaimer is still true when it writes *)

OneReclaimer == \A q, r \in Reclaimers : q = r

(***************************************************************************)
(* max_attempts is a bound on claims, and a row whose attempts are used up *)
(* is never offered again.  claim_job does not look at max_attempts: the   *)
(* bound is kept by the reclaimer, which compares a snapshot.              *)
(***************************************************************************)
AttemptsBounded ==
  \A j \in Jobs :
    /\ attempts[j] <= MaxAttempts
    /\ state[j] = "pending" => attempts[j] < MaxAttempts

AttemptsInv == AttemptsBounded /\ SnapshotInv

LEMMA InitAttempts == Init => AttemptsInv
  BY ConstantsAssumption DEF Init, AttemptsInv, AttemptsBounded, SnapshotInv

LEMMA WorkerAttempts ==
  ASSUME TypeOK, LeaseInv, AttemptsInv,
         NEW w \in Workers, Work(w) \/ RenewLease(w) \/ Fail(w)
  PROVE  AttemptsInv'
  <1> USE ConstantsAssumption
      DEF TypeOK, AttemptsInv, AttemptsBounded, SnapshotInv, row, redis, worker, reclaim
  <1>1. CASE ClaimJob(w)
    <2>1. msg[w].job \in Jobs /\ attempts[msg[w].job] < MaxAttempts
      BY <1>1, WorkerHoldsEntry DEF ClaimJob
    <2>2. ASSUME NEW r \in Reclaimers, NEW x \in rows'[r]
          PROVE  state'[x.job] \notin {"absent", "pending"} /\ attempts'[x.job] = x.attempts
      <3>1. x \in rows[r] /\ x.job \in Jobs /\ x.job # msg[w].job
        BY <1>1, <2>2 DEF ClaimJob, Snapshot
      <3>2. QED BY <1>1, <2>1, <3>1 DEF ClaimJob
    <2>3. \A j \in Jobs : /\ attempts'[j] <= MaxAttempts
                          /\ state'[j] = "pending" => attempts'[j] < MaxAttempts
                          /\ state'[j] = "absent" => attempts'[j] = 0
      BY <1>1, <2>1 DEF ClaimJob
    <2>4. QED BY <2>2, <2>3
  <1>2. ASSUME NEW s \in Outcome, ReleaseAndCommit(w, s) PROVE AttemptsInv'
    <2>1. msg[w].job \in Jobs /\ state[msg[w].job] = "leased"
      BY <1>2, WorkerHoldsEntry DEF ReleaseAndCommit, LeaseInv
    <2>2. ASSUME NEW r \in Reclaimers, NEW x \in rows'[r]
          PROVE  state'[x.job] \notin {"absent", "pending"} /\ attempts'[x.job] = x.attempts
      <3>1. x \in rows[r] /\ x.job \in Jobs
        BY <1>2, <2>2 DEF ReleaseAndCommit, Snapshot
      <3>2. QED BY <1>2, <2>1, <3>1 DEF ReleaseAndCommit, Inserted, Outcome
    <2>3. \A j \in Jobs : /\ attempts'[j] <= MaxAttempts
                          /\ state'[j] = "pending" => attempts'[j] < MaxAttempts
                          /\ state'[j] = "absent" => attempts'[j] = 0
      BY <1>2, <2>1 DEF ReleaseAndCommit, Inserted, Outcome
    <2>4. QED BY <2>2, <2>3
  <1>3. CASE UNCHANGED <<state, attempts, rows>>
    BY <1>3
  <1>4. QED
    BY <1>1, <1>2, <1>3
    DEF Work, Fail, ConsumeNext, ClaimRefused, AbortStolen, EnqueueDownstream,
        EnqueueDownstreamFails, EnqueueDlq, EnqueueDlqFails, AckMessage, RenewLease,
        Die, MessageError

LEMMA SameRow ==
  ASSUME NEW x \in Snapshot, NEW y \in Snapshot, x.job = y.job, x.attempts = y.attempts
  PROVE  x = y
  BY DEF Snapshot

\* Here one reclaimer is needed: another one could have selected the row too.
LEMMA ReclaimerAttempts ==
  ASSUME OneReclaimer, TypeOK, AttemptsInv,
         NEW r \in Reclaimers, Tick(r) \/ TickFails(r)
  PROVE  AttemptsInv'
  <1> USE ConstantsAssumption
      DEF TypeOK, AttemptsInv, AttemptsBounded, SnapshotInv, row, redis, worker, reclaim
  <1>1. CASE SelectExpired(r)
    BY <1>1 DEF SelectExpired, Expired
  <1>2. ASSUME NEW x \in rows[r], NEW s \in {"pending", "failed_terminal"},
               WriteRow(x.job, s), s = "pending" => x.attempts < MaxAttempts,
               rows' = [rows EXCEPT ![r] = @ \ {x}], UNCHANGED attempts
        PROVE  AttemptsInv'
    <2>1. x \in Snapshot /\ x.job \in Jobs /\ attempts[x.job] = x.attempts
      BY <1>2 DEF Snapshot
    <2>2. ASSUME NEW q \in Reclaimers, NEW y \in rows'[q]
          PROVE  state'[y.job] \notin {"absent", "pending"} /\ attempts'[y.job] = y.attempts
      <3>1. q = r /\ y \in rows[r] /\ y # x /\ y \in Snapshot
        BY <1>2, <2>2 DEF OneReclaimer
      <3>2. attempts[y.job] = y.attempts /\ y.job # x.job
        <4>1. attempts[y.job] = y.attempts
          BY <3>1
        <4>2. ASSUME y.job = x.job PROVE y = x
          <5>1. y.attempts = x.attempts
            BY <2>1, <4>1, <4>2
          <5>2. QED BY <2>1, <3>1, <4>2, <5>1, SameRow
        <4>3. QED BY <3>1, <4>1, <4>2
      <3>3. y.job \in Jobs /\ state'[y.job] = state[y.job]
        BY <1>2, <2>1, <3>1, <3>2 DEF WriteRow, Snapshot
      <3>4. QED BY <1>2, <3>1, <3>2, <3>3
    <2>3. \A j \in Jobs : /\ attempts'[j] <= MaxAttempts
                          /\ state'[j] = "pending" => attempts'[j] < MaxAttempts
                          /\ state'[j] = "absent" => attempts'[j] = 0
      BY <1>2, <2>1 DEF WriteRow
    <2>4. QED BY <2>2, <2>3
  <1>3. CASE ResetToPending(r)
    BY <1>2, <1>3 DEF ResetToPending
  <1>4. CASE FailExhausted(r)
    BY <1>2, <1>4 DEF FailExhausted
  <1>5. CASE TickFails(r)
    BY <1>5 DEF TickFails
  <1>6. CASE UNCHANGED <<state, attempts, rows>>
    BY <1>6
  <1>7. QED
    BY <1>1, <1>3, <1>4, <1>5, <1>6
    DEF Tick, ReclaimerDlq, ReclaimerDlqFails, AckStale, ReEnqueue, ReEnqueueFails, EndTick

LEMMA EnvironmentAttempts ==
  ASSUME TypeOK, AttemptsInv, NEW j \in Jobs, Produce(j) \/ Expire(j) \/ LapseAtWork(j)
  PROVE  AttemptsInv'
  <1> USE ConstantsAssumption
      DEF TypeOK, AttemptsInv, AttemptsBounded, SnapshotInv, row, redis, worker, reclaim
  <1>1. CASE Submit(j)
    <2>1. \A r \in Reclaimers : \A x \in rows[r] : x.job \in Jobs /\ x.job # j
      BY <1>1 DEF Submit, Snapshot
    <2>2. QED BY <1>1, <2>1 DEF Submit
  <1>2. CASE UNCHANGED <<state, attempts, rows>>
    BY <1>2
  <1>3. QED
    BY <1>1, <1>2 DEF Produce, Publish, PublishFails, Expire, LapseAtWork

LEMMA NextAttempts ==
  OneReclaimer /\ TypeOK /\ LeaseInv /\ AttemptsInv /\ [Next]_vars => AttemptsInv'
  <1>1. ASSUME AttemptsInv, UNCHANGED vars PROVE AttemptsInv'
    BY <1>1 DEF AttemptsInv, AttemptsBounded, SnapshotInv, vars, row, reclaim
  <1>2. QED BY <1>1, WorkerAttempts, ReclaimerAttempts, EnvironmentAttempts DEF Next

(***************************************************************************)
(* With one reclaimer, whatever fails: no job is claimed more often than   *)
(* max_attempts, although claim_job never looks at it.                     *)
(***************************************************************************)
THEOREM BoundedAttempts == OneReclaimer => (Spec => []AttemptsBounded)
  <1> SUFFICES ASSUME OneReclaimer PROVE Spec => []AttemptsBounded
    OBVIOUS
  <1>1. TypeOK /\ LeaseInv /\ AttemptsInv /\ [Next]_vars => AttemptsInv'
    BY NextAttempts
  <1>2. AttemptsInv => AttemptsBounded
    BY DEF AttemptsInv
  <1>3. QED BY <1>1, <1>2, InitAttempts, LeaseCorrect, PTL DEF Spec

-----------------------------------------------------------------------------
(* No lost job: messages are neither dropped nor consumed in vain *)

\* No process fails between the commit of a pending row and the XADD for it,
\* nor between XREADGROUP and the claim.
MessagesKept == "preclaim" \notin Faults /\ "postcommit" \notin Faults

DeliveryInv == NoLostJob /\ TodoInv

LEMMA XAddDelivers ==
  ASSUME TypeOK, NEW j \in Jobs, XAdd(j)
  PROVE  /\ Undelivered(j)'
         /\ \A k \in Jobs : Undelivered(k) => Undelivered(k)'
  <1> USE DEF TypeOK, XAdd, Undelivered
  <1>1. Len(stream) \in Nat /\ Len(stream') = Len(stream) + 1
    OBVIOUS
  <1>2. /\ stream'[Len(stream) + 1] = [job |-> j, n |-> sent[j] + 1]
        /\ \A i \in 1..Len(stream) : stream'[i] = stream[i]
    OBVIOUS
  <1>3. DOMAIN stream = 1..Len(stream) /\ DOMAIN stream' = 1..(Len(stream) + 1)
    <2>1. stream' \in Seq(Entry)
      BY DEF Entry
    <2>2. QED BY <1>1, <2>1
  <1>4. Undelivered(j)'
    BY <1>1, <1>2, <1>3
  <1>5. \A k \in Jobs : Undelivered(k) => Undelivered(k)'
    BY <1>1, <1>2, <1>3
  <1>6. QED BY <1>4, <1>5

LEMMA ReadTakesOne ==
  ASSUME TypeOK, stream # <<>>, stream' = Tail(stream),
         NEW k \in Jobs, Undelivered(k), Head(stream).job # k
  PROVE  Undelivered(k)'
  <1> USE DEF TypeOK, Undelivered
  <1>1. PICK i \in 1..Len(stream) : stream[i].job = k
    OBVIOUS
  <1>2. i # 1 /\ i \in Nat /\ Len(stream) \in Nat
    BY <1>1
  <1>3. i - 1 \in 1..(Len(stream) - 1)
    BY <1>2
  <1>4. Tail(stream)[i - 1] = stream[i] /\ DOMAIN Tail(stream) = 1..(Len(stream) - 1)
    BY <1>2, <1>3
  <1>5. QED BY <1>1, <1>3, <1>4

LEMMA InitDelivery == Init => DeliveryInv
  BY DEF Init, DeliveryInv, NoLostJob, TodoInv

LEMMA WorkerDelivery ==
  ASSUME MessagesKept, TypeOK, DeliveryInv,
         NEW w \in Workers, Work(w) \/ RenewLease(w) \/ Fail(w)
  PROVE  DeliveryInv'
  <1> USE ConstantsAssumption DEF TypeOK, DeliveryInv, TodoInv, NoLostJob, MessagesKept,
          ToBeSent, row, redis, worker, reclaim
  <1>1. CASE ConsumeNext(w)
    <2>1. TodoInv'
      BY <1>1 DEF ConsumeNext
    <2>2. ASSUME NEW j \in Jobs, Undelivered(j)
          PROVE  Undelivered(j)' \/ (pc'[w] = "received" /\ msg'[w].job = j)
      BY <1>1, <2>2, ReadTakesOne DEF ConsumeNext
    <2>3. NoLostJob'
      BY <1>1, <2>2 DEF ConsumeNext
    <2>4. QED BY <2>1, <2>3
  <1>2. CASE ClaimJob(w)
    <2>1. msg[w].job \in Jobs
      BY <1>2, WorkerHoldsEntry DEF ClaimJob
    <2>2. QED BY <1>2, <2>1 DEF ClaimJob, Undelivered
  <1>3. CASE ClaimRefused(w) \/ AbortStolen(w) \/ RenewLease(w)
    BY <1>3 DEF ClaimRefused, AbortStolen, ToIdle, RenewLease, Undelivered
  <1>4. ASSUME NEW s \in Outcome, ReleaseAndCommit(w, s) PROVE DeliveryInv'
    <2>1. TodoInv'
      BY <1>4 DEF ReleaseAndCommit, Inserted, Outcome
    <2>2. todo[w] = {}
      BY <1>4 DEF ReleaseAndCommit
    <2>3. ASSUME NEW j \in Jobs, state'[j] = "pending"
          PROVE  state[j] = "pending" \/ j \in todo'[w]
      BY <1>4, <2>3 DEF ReleaseAndCommit, Inserted, Outcome
    <2>4. NoLostJob'
      BY <1>4, <2>2, <2>3 DEF ReleaseAndCommit, Undelivered
    <2>5. QED BY <2>1, <2>4
  <1>5. CASE EnqueueDownstream(w)
    <2>1. PICK c \in todo[w] : XAdd(c) /\ todo' = [todo EXCEPT ![w] = @ \ {c}]
      BY <1>5 DEF EnqueueDownstream
    <2>2. c \in Jobs
      BY <2>1
    <2>3. Undelivered(c)' /\ \A k \in Jobs : Undelivered(k) => Undelivered(k)'
      BY <2>1, <2>2, XAddDelivers
    <2>4. QED BY <1>5, <2>1, <2>2, <2>3 DEF EnqueueDownstream
  <1>6. CASE EnqueueDlq(w)
    BY <1>6 DEF EnqueueDlq, Undelivered
  <1>7. CASE AckMessage(w)
    <2>1. todo[w] = {}
      BY <1>7 DEF AckMessage, ReadyToAck
    <2>2. QED BY <1>7, <2>1 DEF AckMessage, ReadyToAck, ToIdle, Undelivered
  <1>8. CASE Fail(w)
    <2>1. pc[w] # "received" /\ todo[w] = {}
      BY <1>8 DEF Fail, Die, MessageError, MayDie, ErrorEscapes, ReadyToAck
    <2>2. UNCHANGED <<state, stream, outbox, reset>> /\ todo' = [todo EXCEPT ![w] = {}]
      BY <1>8 DEF Fail, Die, MessageError
    <2>3. \A v \in Workers : v # w => pc'[v] = pc[v] /\ msg'[v] = msg[v]
      BY <1>8 DEF Fail, Die, MessageError, ToIdle
    <2>4. \A v \in Workers : todo'[v] = todo[v]
      BY <2>1, <2>2
    <2>5. TodoInv'
      BY <2>1, <2>3, <2>4
    <2>6. ASSUME NEW j \in Jobs, state'[j] = "pending"
          PROVE  \/ Undelivered(j)'
                 \/ \E v \in Workers : pc'[v] = "received" /\ msg'[v].job = j
                 \/ ToBeSent(j)'
      <3>1. \/ Undelivered(j)
            \/ \E v \in Workers : pc[v] = "received" /\ msg[v].job = j
            \/ ToBeSent(j)
        BY <2>2, <2>6
      <3>2. CASE Undelivered(j)
        BY <2>2, <3>2 DEF Undelivered
      <3>3. CASE \E v \in Workers : pc[v] = "received" /\ msg[v].job = j
        <4>1. PICK v \in Workers : pc[v] = "received" /\ msg[v].job = j
          BY <3>3
        <4>2. pc'[v] = "received" /\ msg'[v].job = j
          BY <2>1, <2>3, <4>1
        <4>3. QED BY <4>2
      <3>4. CASE ToBeSent(j)
        BY <2>2, <2>4, <3>4
      <3>5. QED BY <3>1, <3>2, <3>3, <3>4
    <2>7. QED BY <2>5, <2>6
  <1>9. ~EnqueueDownstreamFails(w) /\ ~EnqueueDlqFails(w)
    BY DEF EnqueueDownstreamFails, EnqueueDlqFails
  <1>10. QED
    BY <1>1, <1>2, <1>3, <1>4, <1>5, <1>6, <1>7, <1>8, <1>9 DEF Work

LEMMA ReclaimerDelivery ==
  ASSUME MessagesKept, TypeOK, DeliveryInv,
         NEW r \in Reclaimers, Tick(r) \/ TickFails(r)
  PROVE  DeliveryInv'
  <1> USE ConstantsAssumption DEF TypeOK, DeliveryInv, TodoInv, NoLostJob, MessagesKept,
          ToBeSent, row, redis, worker, reclaim
  <1>1. CASE SelectExpired(r)
    BY <1>1 DEF SelectExpired, Undelivered
  <1>2. CASE ResetToPending(r)
    <2>1. PICK x \in rows[r] : /\ WriteRow(x.job, "pending")
                               /\ reset' = [reset EXCEPT ![r] = @ \cup {x.job}]
      BY <1>2 DEF ResetToPending
    <2>2. x.job \in Jobs
      BY <2>1 DEF Snapshot
    <2>3. \A k \in Jobs : state'[k] = "pending" => state[k] = "pending" \/ k \in reset'[r]
      BY <2>1, <2>2 DEF WriteRow
    <2>4. \A q \in Reclaimers : reset[q] \subseteq reset'[q]
      BY <2>1, <2>2
    <2>5. UNCHANGED <<stream, outbox, worker>>
      BY <1>2 DEF ResetToPending
    <2>6. QED BY <2>3, <2>4, <2>5 DEF Undelivered
  <1>3. CASE FailExhausted(r)
    <2>1. PICK x \in rows[r] : WriteRow(x.job, "failed_terminal")
      BY <1>3 DEF FailExhausted
    <2>2. x.job \in Jobs
      BY <2>1 DEF Snapshot
    <2>3. \A k \in Jobs : state'[k] = "pending" => state[k] = "pending"
      BY <2>1, <2>2 DEF WriteRow
    <2>4. UNCHANGED <<stream, outbox, worker, reset>>
      BY <1>3 DEF FailExhausted
    <2>5. QED BY <2>3, <2>4 DEF Undelivered
  <1>4. CASE ReclaimerDlq(r)
    BY <1>4 DEF ReclaimerDlq, Undelivered
  <1>5. CASE \E stale \in SUBSET MayBeStale : AckStale(r, stale)
    BY <1>5 DEF AckStale, Undelivered
  <1>6. CASE ReEnqueue(r)
    <2>1. PICK c \in reset[r] : XAdd(c) /\ reset' = [reset EXCEPT ![r] = @ \ {c}]
      BY <1>6 DEF ReEnqueue
    <2>2. c \in Jobs
      BY <2>1
    <2>3. Undelivered(c)' /\ \A k \in Jobs : Undelivered(k) => Undelivered(k)'
      BY <2>1, <2>2, XAddDelivers
    <2>4. QED BY <1>6, <2>1, <2>2, <2>3 DEF ReEnqueue
  <1>7. CASE EndTick(r)
    BY <1>7 DEF EndTick, Undelivered
  <1>8. CASE TickFails(r)
    <2>1. reset[r] = {}
      BY <1>8 DEF TickFails
    <2>2. QED BY <1>8, <2>1 DEF TickFails, Undelivered
  <1>9. ~ReclaimerDlqFails(r) /\ ~ReEnqueueFails(r)
    BY DEF ReclaimerDlqFails, ReEnqueueFails
  <1>10. QED
    BY <1>1, <1>2, <1>3, <1>4, <1>5, <1>6, <1>7, <1>8, <1>9 DEF Tick

LEMMA EnvironmentDelivery ==
  ASSUME MessagesKept, TypeOK, DeliveryInv,
         NEW j \in Jobs, Produce(j) \/ Expire(j) \/ LapseAtWork(j)
  PROVE  DeliveryInv'
  <1> USE ConstantsAssumption DEF TypeOK, DeliveryInv, TodoInv, NoLostJob, MessagesKept,
          ToBeSent, row, redis, worker, reclaim
  <1>1. CASE Submit(j)
    BY <1>1 DEF Submit, Undelivered
  <1>2. CASE Publish(j)
    <2>1. Undelivered(j)' /\ \A k \in Jobs : Undelivered(k) => Undelivered(k)'
      BY <1>2, XAddDelivers DEF Publish
    <2>2. QED BY <1>2, <2>1 DEF Publish
  <1>3. CASE Expire(j) \/ LapseAtWork(j)
    BY <1>3 DEF Expire, LapseAtWork, Undelivered
  <1>4. ~PublishFails(j)
    BY DEF PublishFails
  <1>5. QED BY <1>1, <1>2, <1>3, <1>4 DEF Produce

LEMMA NextDelivery ==
  MessagesKept /\ TypeOK /\ DeliveryInv /\ [Next]_vars => DeliveryInv'
  <1>1. ASSUME DeliveryInv, UNCHANGED vars PROVE DeliveryInv'
    BY <1>1 DEF DeliveryInv, NoLostJob, TodoInv, Undelivered, ToBeSent, vars,
       row, redis, worker, reclaim
  <1>2. QED BY <1>1, WorkerDelivery, ReclaimerDelivery, EnvironmentDelivery DEF Next

(***************************************************************************)
(* Workers may die with a lease in hand, heartbeats may stop and any       *)
(* number of reclaimers may run: as long as no process fails between a     *)
(* commit and its XADD or between a read and its claim, every pending row  *)
(* has its message.                                                        *)
(***************************************************************************)
THEOREM NothingLost == MessagesKept => (Spec => []NoLostJob)
  <1> SUFFICES ASSUME MessagesKept PROVE Spec => []NoLostJob
    OBVIOUS
  <1>1. TypeOK /\ DeliveryInv /\ [Next]_vars => DeliveryInv'
    BY NextDelivery
  <1>2. DeliveryInv => NoLostJob
    BY DEF DeliveryInv
  <1>3. QED BY <1>1, <1>2, InitDelivery, TypeCorrect, PTL DEF Spec

-----------------------------------------------------------------------------
(* One worker per job, one step of its row at a time *)

\* No live worker loses its lease: every heartbeat renews within the lease TTL.
HeartbeatsHold == "lapse" \notin Faults

LEMMA InitExpired == Init => ExpiredInv
  BY DEF Init, ExpiredInv

LEMMA WorkerExpired ==
  ASSUME TypeOK, LeaseInv, SnapshotInv, ExpiredInv,
         NEW w \in Workers, Work(w) \/ RenewLease(w) \/ Fail(w)
  PROVE  ExpiredInv'
  <1> USE ConstantsAssumption DEF TypeOK, ExpiredInv, Expired, HolderAtWork, Executing,
          row, redis, worker, reclaim
  <1>1. \A v \in Workers : pc[v] = "executing" => msg[v].job \in Jobs
    BY WorkerHoldsEntry
  <1>2. \A r \in Reclaimers : \A x \in rows[r] : x.job \in Jobs
    BY DEF Snapshot
  <1>3. CASE ClaimJob(w)
    <2>1. msg[w].job \in Jobs /\ state[msg[w].job] = "pending" /\ owner[msg[w].job] = NoWorker
      BY <1>3, WorkerHoldsEntry DEF ClaimJob, LeaseInv
    <2>2. \A v \in Workers : pc[v] = "executing" => msg[v].job # msg[w].job
      BY <2>1
    <2>3. \A j \in Jobs : j # msg[w].job =>
            state'[j] = state[j] /\ owner'[j] = owner[j] /\ (lapsed'[j] <=> lapsed[j])
      BY <1>3, <2>1 DEF ClaimJob
    <2>4. owner'[msg[w].job] = w /\ ~lapsed'[msg[w].job] /\ UNCHANGED <<msg, rows>>
      BY <1>3, <2>1 DEF ClaimJob
    <2>5. \A v \in Workers : v # w => pc'[v] = pc[v]
      BY <1>3 DEF ClaimJob
    <2>6. ASSUME NEW j \in Jobs, lapsed'[j], NEW v \in Workers, owner'[j] = v, pc'[v] = "executing",
                 msg'[v].job = j
          PROVE  FALSE
      <3>1. j # msg[w].job
        BY <2>4, <2>6
      <3>2. lapsed[j] /\ owner[j] = v
        BY <2>3, <2>6, <3>1
      <3>3. v # w
        BY <2>4, <2>6, <3>1
      <3>4. pc[v] = "executing" /\ msg[v].job = j
        BY <2>4, <2>5, <2>6, <3>3
      <3>5. QED BY <3>2, <3>4
    <2>7. \A r \in Reclaimers : \A x \in rows'[r] : x.job \in Expired'
      BY <1>2, <2>1, <2>3, <2>4 DEF SnapshotInv
    <2>8. \A v \in Workers : pc'[v] = "executing" => owner'[msg'[v].job] = v
      BY <1>1, <2>2, <2>3, <2>4, <2>5
    <2>9. QED BY <2>6, <2>7, <2>8
  <1>4. ASSUME NEW s \in Outcome, ReleaseAndCommit(w, s) PROVE ExpiredInv'
    <2>1. /\ msg[w].job \in Jobs /\ owner[msg[w].job] = w
          /\ ~lapsed[msg[w].job]
      BY <1>1, <1>4 DEF ReleaseAndCommit
    <2>2. pc'[w] # "executing" /\ \A v \in Workers : v # w => pc'[v] = pc[v]
      BY <1>4 DEF ReleaseAndCommit, Outcome
    <2>3. \A j \in Jobs : j # msg[w].job =>
            owner'[j] = owner[j] /\ (lapsed'[j] <=> lapsed[j])
      BY <1>4, <2>1 DEF ReleaseAndCommit
    <2>4. \A j \in Jobs : j # msg[w].job /\ state[j] # "absent" => state'[j] = state[j]
      BY <1>4, <2>1 DEF ReleaseAndCommit, Inserted
    <2>5. ~lapsed'[msg[w].job] /\ UNCHANGED <<msg, rows>>
      BY <1>4, <2>1 DEF ReleaseAndCommit
    <2>6. ASSUME NEW j \in Jobs, lapsed'[j], NEW v \in Workers, owner'[j] = v, pc'[v] = "executing",
                 msg'[v].job = j
          PROVE  FALSE
      <3>1. j # msg[w].job /\ v # w
        BY <2>2, <2>5, <2>6
      <3>2. lapsed[j] /\ owner[j] = v
        BY <2>3, <2>6, <3>1
      <3>3. pc[v] = "executing" /\ msg[v].job = j
        BY <2>2, <2>5, <2>6, <3>1
      <3>4. QED BY <3>2, <3>3
    <2>7. \A r \in Reclaimers : \A x \in rows'[r] : x.job \in Expired'
      BY <1>2, <2>1, <2>3, <2>4, <2>5
    <2>8. ASSUME NEW v \in Workers, pc'[v] = "executing" PROVE owner'[msg'[v].job] = v
      <3>1. v # w /\ pc[v] = "executing"
        BY <2>2, <2>8
      <3>2. msg[v].job \in Jobs /\ owner[msg[v].job] = v
        BY <1>1, <3>1
      <3>3. msg[v].job # msg[w].job
        BY <2>1, <3>1, <3>2
      <3>4. owner'[msg[v].job] = v /\ msg' = msg
        BY <2>3, <2>5, <3>2, <3>3
      <3>5. QED BY <3>4
    <2>9. QED BY <2>6, <2>7, <2>8
  <1>5. CASE RenewLease(w)
    <2>1. msg[w].job \in Jobs /\ owner[msg[w].job] = w /\ ~lapsed[msg[w].job]
      BY <1>1, <1>5 DEF RenewLease
    <2>2. \A j \in Jobs : (lapsed'[j] <=> lapsed[j])
      BY <1>5, <2>1 DEF RenewLease
    <2>3. UNCHANGED <<state, owner, pc, msg, rows>>
      BY <1>5 DEF RenewLease
    <2>4. QED BY <1>1, <1>2, <2>2, <2>3
  <1>6. ASSUME UNCHANGED <<state, owner, lapsed, rows>>,
               \A v \in Workers : pc'[v] = "executing" =>
                                    pc[v] = "executing" /\ msg'[v] = msg[v]
        PROVE  ExpiredInv'
    BY <1>6
  <1>7. CASE ConsumeNext(w)
    BY <1>6, <1>7 DEF ConsumeNext
  <1>8. CASE ClaimRefused(w) \/ AbortStolen(w) \/ AckMessage(w) \/ MessageError(w)
    BY <1>6, <1>8 DEF ClaimRefused, AbortStolen, AckMessage, MessageError, ToIdle
  <1>9. CASE EnqueueDownstream(w) \/ EnqueueDownstreamFails(w)
    BY <1>6, <1>9 DEF EnqueueDownstream, EnqueueDownstreamFails
  <1>10. CASE EnqueueDlq(w) \/ EnqueueDlqFails(w)
    BY <1>6, <1>10 DEF EnqueueDlq, EnqueueDlqFails
  <1>11. CASE Die(w)
    BY <1>6, <1>11 DEF Die
  <1>12. QED
    BY <1>3, <1>4, <1>5, <1>7, <1>8, <1>9, <1>10, <1>11 DEF Work, Fail

LEMMA ReclaimerExpired ==
  ASSUME OneReclaimer, TypeOK, SnapshotInv, ExpiredInv,
         NEW r \in Reclaimers, Tick(r) \/ TickFails(r)
  PROVE  ExpiredInv'
  <1> USE ConstantsAssumption DEF TypeOK, ExpiredInv, Expired, HolderAtWork, Executing,
          row, redis, worker, reclaim
  <1>1. ASSUME NEW x \in rows[r], NEW s \in {"pending", "failed_terminal"},
               WriteRow(x.job, s), rows' = [rows EXCEPT ![r] = @ \ {x}],
               UNCHANGED <<attempts, worker>>
        PROVE  ExpiredInv'
    <2>1. x \in Snapshot /\ x.job \in Jobs /\ lapsed[x.job]
      BY <1>1 DEF Snapshot
    <2>2. \A j \in Jobs : j # x.job =>
            state'[j] = state[j] /\ owner'[j] = owner[j] /\ (lapsed'[j] <=> lapsed[j])
      BY <1>1, <2>1 DEF WriteRow
    <2>3. ~lapsed'[x.job] /\ UNCHANGED <<pc, msg>>
      BY <1>1, <2>1 DEF WriteRow
    <2>4. \A v \in Workers : pc[v] = "executing" =>
            msg[v].job \in Jobs /\ msg[v].job # x.job
      BY <2>1, WorkerHoldsEntry
    <2>5. ASSUME NEW q \in Reclaimers, NEW y \in rows'[q]
          PROVE  y.job \in Expired'
      <3>1. q = r /\ y \in rows[r] /\ y # x /\ y \in Snapshot
        BY <1>1, <2>5 DEF OneReclaimer
      <3>2. y.job \in Expired /\ y.job \in Jobs
        BY <3>1 DEF Snapshot
      <3>3. ASSUME y.job = x.job PROVE FALSE
        <4>1. y.attempts = x.attempts
          BY <2>1, <3>1, <3>3 DEF SnapshotInv
        <4>2. QED BY <2>1, <3>1, <3>3, <4>1, SameRow
      <3>4. QED BY <2>2, <3>2, <3>3
    <2>6. ASSUME NEW j \in Jobs, lapsed'[j], NEW v \in Workers, owner'[j] = v, pc'[v] = "executing",
                 msg'[v].job = j
          PROVE  FALSE
      BY <2>6, <2>2, <2>3
    <2>7. \A v \in Workers : pc'[v] = "executing" => owner'[msg'[v].job] = v
      BY <2>2, <2>3, <2>4
    <2>8. QED BY <2>5, <2>6, <2>7
  <1>2. CASE ResetToPending(r)
    BY <1>1, <1>2 DEF ResetToPending
  <1>3. CASE FailExhausted(r)
    BY <1>1, <1>3 DEF FailExhausted
  <1>4. CASE SelectExpired(r)
    BY <1>4 DEF SelectExpired
  <1>5. CASE TickFails(r)
    BY <1>5 DEF TickFails
  <1>6. CASE UNCHANGED <<row, worker, rows>>
    BY <1>6
  <1>7. QED
    BY <1>2, <1>3, <1>4, <1>5, <1>6
    DEF Tick, ReclaimerDlq, ReclaimerDlqFails, AckStale, ReEnqueue, ReEnqueueFails, EndTick

LEMMA EnvironmentExpired ==
  ASSUME HeartbeatsHold, TypeOK, LeaseInv, SnapshotInv, ExpiredInv,
         NEW j \in Jobs, Produce(j) \/ Expire(j) \/ LapseAtWork(j)
  PROVE  ExpiredInv'
  <1> USE ConstantsAssumption DEF TypeOK, ExpiredInv, Expired, HolderAtWork, Executing,
          row, redis, worker, reclaim
  <1>1. \A r \in Reclaimers : \A x \in rows[r] : x.job \in Jobs
    BY DEF Snapshot
  <1>2. CASE Submit(j)
    BY <1>1, <1>2 DEF Submit, SnapshotInv
  <1>3. CASE Publish(j) \/ PublishFails(j)
    BY <1>3 DEF Publish, PublishFails
  <1>4. CASE Expire(j)
    <2>1. owner[j] = NoWorker \/ ~HolderAtWork(j)
      BY <1>4 DEF Expire, LeaseInv
    <2>2. ~HolderAtWork(j)
      BY <2>1
    <2>3. QED BY <1>1, <1>4, <2>2 DEF Expire
  <1>5. ~LapseAtWork(j)
    BY DEF LapseAtWork, HeartbeatsHold
  <1>6. QED BY <1>2, <1>3, <1>4, <1>5 DEF Produce

\* All that is known of a row, its lease and its snapshot.
QueueInv == TypeOK /\ LeaseInv /\ AttemptsInv /\ ExpiredInv

LEMMA QueueCorrect == OneReclaimer /\ HeartbeatsHold => (Spec => []QueueInv)
  <1> SUFFICES ASSUME OneReclaimer, HeartbeatsHold PROVE Spec => []QueueInv
    OBVIOUS
  <1>1. Init => QueueInv
    BY InitType, InitLease, InitAttempts, InitExpired DEF QueueInv
  <1>2. QueueInv /\ [Next]_vars => QueueInv'
    <2>1. ASSUME ExpiredInv, UNCHANGED vars PROVE ExpiredInv'
      BY <2>1 DEF ExpiredInv, Expired, HolderAtWork, Executing, vars, row, worker, reclaim
    <2>2. ASSUME QueueInv, Next PROVE ExpiredInv'
      BY <2>2, WorkerExpired, ReclaimerExpired, EnvironmentExpired
      DEF Next, QueueInv, AttemptsInv
    <2>3. QED BY <2>1, <2>2, NextType, NextLease, NextAttempts DEF QueueInv
  <1>3. QED BY <1>1, <1>2, PTL DEF Spec

(***************************************************************************)
(* With one reclaimer and heartbeats that hold, however often messages are *)
(* duplicated and workers die: at most one worker executes a job           *)
(* (claim_job's WHERE state = 'pending').                                  *)
(***************************************************************************)
THEOREM OneExecution == OneReclaimer /\ HeartbeatsHold => (Spec => []NoConcurrentExecution)
  <1> SUFFICES ASSUME OneReclaimer, HeartbeatsHold PROVE Spec => []NoConcurrentExecution
    OBVIOUS
  <1>1. QueueInv => NoConcurrentExecution
    BY DEF QueueInv, ExpiredInv, NoConcurrentExecution, Executing
  <1>2. QED BY <1>1, QueueCorrect, PTL

\* A step of a worker is a step of the row of its message, or leaves rows alone.
LEMMA WorkerLifecycle ==
  ASSUME QueueInv, NEW w \in Workers, Work(w) \/ RenewLease(w) \/ Fail(w)
  PROVE  Lifecycle!LifecycleNext \/ UNCHANGED <<state, attempts>>
  <1> USE DEF QueueInv, TypeOK, row
  <1>1. CASE ClaimJob(w)
    <2>1. msg[w].job \in Jobs
      BY <1>1, WorkerHoldsEntry DEF ClaimJob
    <2>2. Lifecycle!Claim(msg[w].job)
      BY <1>1, <2>1 DEF ClaimJob, Lifecycle!Claim, AttemptsInv, AttemptsBounded
    <2>3. QED BY <2>1, <2>2 DEF Lifecycle!LifecycleNext
  <1>2. ASSUME NEW s \in Outcome, ReleaseAndCommit(w, s)
        PROVE  Lifecycle!LifecycleNext
    <2>1. msg[w].job \in Jobs /\ state[msg[w].job] = "leased"
      BY <1>2, WorkerHoldsEntry, ConstantsAssumption DEF ReleaseAndCommit, LeaseInv
    <2>2. CASE s = "succeeded"
      <3>1. state' = [c \in Jobs |->
              IF c = msg[w].job THEN "succeeded"
              ELSE IF c \in Downstream[msg[w].job] /\ state[c] = "absent" THEN "pending"
              ELSE state[c]]
        BY <1>2, <2>2, <2>1, ConstantsAssumption DEF ReleaseAndCommit, Inserted
      <3>2. Lifecycle!Succeed(msg[w].job)
        BY <1>2, <2>1, <3>1 DEF ReleaseAndCommit, Lifecycle!Succeed
      <3>3. QED BY <2>1, <3>2 DEF Lifecycle!LifecycleNext, Lifecycle!Attempted
    <2>3. CASE s # "succeeded"
      <3>1. state' = [state EXCEPT ![msg[w].job] = s]
        BY <1>2, <2>3 DEF ReleaseAndCommit, Inserted
      <3>2. Lifecycle!Fail(msg[w].job)
        BY <1>2, <2>1, <2>3, <3>1 DEF ReleaseAndCommit, Lifecycle!Fail, Outcome
      <3>3. QED BY <2>1, <3>2 DEF Lifecycle!LifecycleNext, Lifecycle!Attempted
    <2>4. QED BY <2>2, <2>3
  <1>3. QED
    BY <1>1, <1>2
    DEF Work, Fail, ConsumeNext, ClaimRefused, AbortStolen, EnqueueDownstream,
        EnqueueDownstreamFails, EnqueueDlq, EnqueueDlqFails, AckMessage, RenewLease,
        Die, MessageError

\* The reclaimer writes what it read, and the row still is what it read.
LEMMA ReclaimerLifecycle ==
  ASSUME QueueInv, NEW r \in Reclaimers, Tick(r) \/ TickFails(r)
  PROVE  Lifecycle!LifecycleNext \/ UNCHANGED <<state, attempts>>
  <1> USE DEF QueueInv, TypeOK, row
  <1>1. ASSUME NEW x \in rows[r], UNCHANGED attempts,
               WriteRow(x.job, IF x.attempts < MaxAttempts THEN "pending"
                               ELSE "failed_terminal")
        PROVE  Lifecycle!LifecycleNext
    <2>1. x.job \in Jobs /\ x.attempts = attempts[x.job]
      BY DEF Snapshot, AttemptsInv, SnapshotInv
    <2>2. state[x.job] \in {"leased", "retry_wait"}
      BY DEF ExpiredInv, Expired
    <2>3. Lifecycle!Reclaim(x.job)
      BY <1>1, <2>1, <2>2 DEF WriteRow, Lifecycle!Reclaim
    <2>4. QED BY <2>1, <2>3 DEF Lifecycle!LifecycleNext, Lifecycle!Attempted
  <1>2. CASE ResetToPending(r)
    BY <1>1, <1>2 DEF ResetToPending
  <1>3. CASE FailExhausted(r)
    <2>1. PICK x \in rows[r] : x.attempts >= MaxAttempts /\ WriteRow(x.job, "failed_terminal")
      BY <1>3 DEF FailExhausted
    <2>2. ~(x.attempts < MaxAttempts)
      BY <2>1, ConstantsAssumption DEF Snapshot
    <2>3. QED BY <1>1, <1>3, <2>1, <2>2 DEF FailExhausted
  <1>4. QED
    BY <1>2, <1>3
    DEF Tick, TickFails, SelectExpired, ReclaimerDlq, ReclaimerDlqFails, AckStale,
        ReEnqueue, ReEnqueueFails, EndTick

(***************************************************************************)
(* With one reclaimer and heartbeats that hold, the queue implements the   *)
(* lifecycle of a job row that leases.py states: every step of a worker,   *)
(* the reclaimer or a producer is one step of the lifecycle or leaves the  *)
(* rows alone.                                                             *)
(***************************************************************************)
THEOREM FollowsLifecycle == OneReclaimer /\ HeartbeatsHold => (Spec => RowsFollowLifecycle)
  <1> SUFFICES ASSUME OneReclaimer, HeartbeatsHold PROVE Spec => RowsFollowLifecycle
    OBVIOUS
  <1>1. Init => Lifecycle!LifecycleInit
    BY DEF Init, Lifecycle!LifecycleInit
  <1>2. QueueInv /\ [Next]_vars => [Lifecycle!LifecycleNext]_(Lifecycle!rowVars)
    <2>1. ASSUME QueueInv, NEW j \in Jobs, Produce(j) \/ Expire(j) \/ LapseAtWork(j)
          PROVE  Lifecycle!LifecycleNext \/ UNCHANGED <<state, attempts>>
      BY <2>1 DEF Produce, Submit, Publish, PublishFails, Expire, LapseAtWork, row,
         Lifecycle!LifecycleNext, Lifecycle!Insert
    <2>2. QED BY <2>1, WorkerLifecycle, ReclaimerLifecycle
              DEF Next, vars, row, Lifecycle!rowVars
  <1>3. QED
    BY <1>1, <1>2, QueueCorrect, PTL
    DEF Spec, RowsFollowLifecycle, Lifecycle!LifecycleSpec

(***************************************************************************)
(* With one reclaimer and heartbeats that hold, nobody takes a running     *)
(* lease away: it ends when its holder releases the job.                   *)
(***************************************************************************)
THEOREM LeasesRunOut == OneReclaimer /\ HeartbeatsHold => (Spec => RunningLeaseNotReclaimed)
  <1> SUFFICES ASSUME OneReclaimer, HeartbeatsHold PROVE Spec => RunningLeaseNotReclaimed
    OBVIOUS
  <1> USE DEF TypeOK, row
  <1>1. ASSUME QueueInv, [Next]_vars, NEW j \in Jobs, NEW w \in Workers,
               owner[j] = w, ~lapsed[j], owner'[j] # w
        PROVE  Executing(w, j) /\ pc'[w] # "executing"
    <2> USE ConstantsAssumption DEF QueueInv
    <2>1. ASSUME NEW v \in Workers, ClaimJob(v) PROVE FALSE
      BY <1>1, <2>1, WorkerHoldsEntry DEF ClaimJob, LeaseInv
    <2>2. ASSUME NEW v \in Workers, NEW s \in Outcome, ReleaseAndCommit(v, s)
          PROVE  Executing(w, j) /\ pc'[w] # "executing"
      <3>1. msg[v].job = j /\ v = w
        BY <1>1, <2>2 DEF ReleaseAndCommit
      <3>2. Executing(w, j)
        BY <2>2, <3>1 DEF ReleaseAndCommit, Executing
      <3>3. pc'[w] # "executing"
        BY <1>1, <2>2, <3>1 DEF ReleaseAndCommit, Outcome
      <3>4. QED BY <3>2, <3>3
    <2>3. ASSUME NEW r \in Reclaimers, ResetToPending(r) \/ FailExhausted(r) PROVE FALSE
      <3>1. PICK x \in rows[r] : x.job = j
        BY <1>1, <2>3 DEF ResetToPending, FailExhausted, WriteRow
      <3>2. QED BY <1>1, <3>1 DEF ExpiredInv, Expired
    <2>4. QED
      BY <1>1, <2>1, <2>2, <2>3
      DEF Next, vars, Produce, Submit, Publish, PublishFails, Expire, LapseAtWork,
          Work, Fail, ConsumeNext, ClaimRefused, AbortStolen, EnqueueDownstream,
          EnqueueDownstreamFails, EnqueueDlq, EnqueueDlqFails, AckMessage, RenewLease,
          Die, MessageError, Tick, TickFails, SelectExpired, ReclaimerDlq,
          ReclaimerDlqFails, AckStale, ReEnqueue, ReEnqueueFails, EndTick
  <1>2. QueueInv /\ [Next]_vars =>
          [\A j \in Jobs : \A w \in Workers :
             owner[j] = w /\ ~lapsed[j] /\ owner'[j] # w
               => Executing(w, j) /\ pc'[w] # "executing"]_vars
    BY <1>1
  <1>3. QED BY <1>2, QueueCorrect, PTL DEF Spec, RunningLeaseNotReclaimed

(***************************************************************************)
(* With one reclaimer and heartbeats that hold a committed result is final *)
(* (TerminalIsFinal): what the reclaimer selected is still expired when it *)
(* is written, however long that takes, and what has expired is not        *)
(* settled.  LeaseQueue_frozen_snapshot shows it violated without the      *)
(* second assumption.                                                      *)
(***************************************************************************)
THEOREM ResultsAreFinal == OneReclaimer /\ HeartbeatsHold => (Spec => TerminalIsFinal)
  <1> SUFFICES ASSUME OneReclaimer, HeartbeatsHold PROVE Spec => TerminalIsFinal
    OBVIOUS
  <1> USE DEF TypeOK, row, Terminal
  <1>1. ASSUME QueueInv, [Next]_vars, NEW j \in Jobs, state[j] \in Terminal
        PROVE  state'[j] = state[j]
    <2> USE ConstantsAssumption DEF QueueInv
    <2>1. ASSUME NEW i \in Jobs, Submit(i) PROVE state'[j] = state[j]
      BY <1>1, <2>1 DEF Submit
    <2>2. ASSUME NEW w \in Workers, ClaimJob(w) PROVE state'[j] = state[j]
      BY <1>1, <2>2 DEF ClaimJob
    <2>3. ASSUME NEW w \in Workers, NEW s \in Outcome, ReleaseAndCommit(w, s)
          PROVE  state'[j] = state[j]
      <3>1. owner[msg[w].job] = w /\ msg[w].job \in Jobs
        BY <1>1, <2>3, WorkerHoldsEntry DEF ReleaseAndCommit
      <3>2. msg[w].job # j
        BY <1>1, <3>1 DEF LeaseInv
      <3>3. QED BY <1>1, <2>3, <3>2 DEF ReleaseAndCommit, Inserted
    <2>4. ASSUME NEW r \in Reclaimers, ResetToPending(r) \/ FailExhausted(r)
          PROVE  state'[j] = state[j]
      <3>1. PICK x \in rows[r], s \in JobState : WriteRow(x.job, s)
        BY <2>4 DEF ResetToPending, FailExhausted, JobState
      <3>2. x.job \in Expired
        BY <1>1, <3>1 DEF ExpiredInv
      <3>3. x.job # j
        BY <1>1, <3>2 DEF Expired
      <3>4. QED BY <3>1, <3>3 DEF WriteRow
    <2>5. QED
      BY <1>1, <2>1, <2>2, <2>3, <2>4
      DEF Next, vars, Produce, Publish, PublishFails, Expire, LapseAtWork,
          Work, Fail, ConsumeNext, ClaimRefused, AbortStolen, EnqueueDownstream,
          EnqueueDownstreamFails, EnqueueDlq, EnqueueDlqFails, AckMessage, RenewLease,
          Die, MessageError, Tick, TickFails, SelectExpired, ReclaimerDlq,
          ReclaimerDlqFails, AckStale, ReEnqueue, ReEnqueueFails, EndTick
  <1>2. QueueInv /\ [Next]_vars =>
          [\A j \in Jobs : state[j] \in Terminal => state'[j] = state[j]]_vars
    BY <1>1
  <1>3. QED BY <1>2, QueueCorrect, PTL DEF Spec, TerminalIsFinal

-----------------------------------------------------------------------------
(* Dead letters *)

\* Nobody dies or errs between the commit of a failure and the XADD to the DLQ.
DeadLettersSent == "abandon" \notin Faults /\ "postcommit" \notin Faults

\* A failed job has its entry in the DLQ, or somebody is about to write it.
DeadLetterInv ==
  \A j \in Jobs : state[j] = "failed_terminal" =>
    \/ j \in dlq
    \/ \E w \in Workers : pc[w] = "deadlettering" /\ msg[w].job = j
    \/ \E r \in Reclaimers : rpc[r] = "deadlettering" /\ doomed[r] = j

\* What keeps it: a row fails with its writer known, and who is to write, does or still is to.
LEMMA DeadLettersKept ==
  ASSUME DeadLetterInv, dlq \subseteq dlq',
         \A j \in Jobs : state'[j] = "failed_terminal" =>
           \/ state[j] = "failed_terminal"
           \/ \E w \in Workers : pc'[w] = "deadlettering" /\ msg'[w].job = j
           \/ \E r \in Reclaimers : rpc'[r] = "deadlettering" /\ doomed'[r] = j,
         \A w \in Workers : pc[w] = "deadlettering" =>
           (pc'[w] = "deadlettering" /\ msg'[w] = msg[w]) \/ msg[w].job \in dlq',
         \A r \in Reclaimers : rpc[r] = "deadlettering" =>
           (rpc'[r] = "deadlettering" /\ doomed'[r] = doomed[r]) \/ doomed[r] \in dlq'
  PROVE  DeadLetterInv'
  BY DEF DeadLetterInv

LEMMA DeadLetterStep ==
  ASSUME DeadLettersSent, TypeOK, DeadLetterInv, [Next]_vars
  PROVE  DeadLetterInv'
<1>. USE DEF TypeOK, row, redis, worker, reclaim
<1>1. ASSUME NEW j \in Jobs, Produce(j) \/ Expire(j) \/ LapseAtWork(j)
      PROVE  DeadLetterInv'
  <2>1. \A i \in Jobs : state'[i] = "failed_terminal" => state[i] = "failed_terminal"
    BY <1>1 DEF Produce, Submit, Publish, PublishFails, Expire, LapseAtWork
  <2>2. UNCHANGED <<dlq, pc, msg, rpc, doomed>>
    BY <1>1 DEF Produce, Submit, Publish, PublishFails, Expire, LapseAtWork, XAdd
  <2>. QED
    BY <2>1, <2>2, DeadLettersKept
<1>2. ASSUME NEW w \in Workers, ClaimJob(w) PROVE DeadLetterInv'
  <2>1. \A i \in Jobs : state'[i] = "failed_terminal" => state[i] = "failed_terminal"
    BY <1>2 DEF ClaimJob
  <2>2. \A v \in Workers : pc[v] = "deadlettering" => pc'[v] = pc[v]
    BY <1>2 DEF ClaimJob
  <2>. QED
    BY <1>2, <2>1, <2>2, DeadLettersKept DEF ClaimJob
<1>3. ASSUME NEW w \in Workers, NEW s \in Outcome, ReleaseAndCommit(w, s) PROVE DeadLetterInv'
  <2>1. \A i \in Jobs : state'[i] = "failed_terminal" =>
          state[i] = "failed_terminal" \/ (i = msg[w].job /\ s = "failed_terminal")
    BY <1>3 DEF ReleaseAndCommit
  <2>2. /\ UNCHANGED <<dlq, msg, rpc, doomed>>
        /\ \A v \in Workers : pc[v] = "deadlettering" => pc'[v] = pc[v]
        /\ s = "failed_terminal" => pc'[w] = "deadlettering"
    BY <1>3 DEF ReleaseAndCommit
  <2>3. \A i \in Jobs : state'[i] = "failed_terminal" =>
          \/ state[i] = "failed_terminal"
          \/ \E v \in Workers : pc'[v] = "deadlettering" /\ msg'[v].job = i
    BY <2>1, <2>2
  <2>. QED
    BY <2>2, <2>3, DeadLettersKept
<1>4. ASSUME NEW w \in Workers, EnqueueDlq(w) PROVE DeadLetterInv'
  <2>1. /\ UNCHANGED <<state, msg, rpc, doomed>> /\ dlq' = dlq \cup {msg[w].job}
        /\ \A v \in Workers : v # w => pc'[v] = pc[v]
    BY <1>4 DEF EnqueueDlq
  <2>2. \A v \in Workers : pc[v] = "deadlettering" =>
          (pc'[v] = "deadlettering" /\ msg'[v] = msg[v]) \/ msg[v].job \in dlq'
    BY <2>1
  <2>3. dlq \subseteq dlq' /\ UNCHANGED <<state, rpc, doomed>>
    BY <2>1
  <2>. QED
    BY <2>2, <2>3, DeadLettersKept
<1>5. ASSUME NEW w \in Workers, Work(w) \/ RenewLease(w) \/ Fail(w),
             ~ ClaimJob(w), ~ EnqueueDlq(w), \A s \in Outcome : ~ ReleaseAndCommit(w, s)
      PROVE  DeadLetterInv'
  <2>1. UNCHANGED <<state, dlq, rpc, doomed>>
    BY <1>5 DEF Work, Fail, ConsumeNext, ClaimRefused, AbortStolen, EnqueueDownstream, XAdd,
         EnqueueDownstreamFails, EnqueueDlqFails, AckMessage, RenewLease, Die, MessageError
  <2>2. \A v \in Workers : pc[v] = "deadlettering" => pc'[v] = pc[v] /\ msg'[v] = msg[v]
    BY <1>5 DEF Work, Fail, ConsumeNext, ClaimRefused, AbortStolen, EnqueueDownstream, ToIdle,
         EnqueueDownstreamFails, EnqueueDlqFails, AckMessage, RenewLease, Die, MessageError,
         MayDie, ErrorEscapes, ReadyToAck, DeadLettersSent
  <2>. QED
    BY <2>1, <2>2, DeadLettersKept
<1>6. ASSUME NEW r \in Reclaimers, FailExhausted(r) PROVE DeadLetterInv'
  <2>1. PICK x \in rows[r] : WriteRow(x.job, "failed_terminal") /\ doomed' = [doomed EXCEPT ![r] = x.job]
    BY <1>6 DEF FailExhausted
  <2>2. \A i \in Jobs : state'[i] = "failed_terminal" => state[i] = "failed_terminal" \/ i = x.job
    BY <2>1 DEF WriteRow
  <2>3. /\ UNCHANGED <<dlq, pc, msg>>
        /\ rpc[r] = "resetting" /\ rpc'[r] = "deadlettering" /\ doomed'[r] = x.job
        /\ \A q \in Reclaimers : q # r => rpc'[q] = rpc[q] /\ doomed'[q] = doomed[q]
    BY <1>6, <2>1 DEF FailExhausted
  <2>4. \A i \in Jobs : state'[i] = "failed_terminal" =>
          \/ state[i] = "failed_terminal"
          \/ \E q \in Reclaimers : rpc'[q] = "deadlettering" /\ doomed'[q] = i
    BY <2>2, <2>3
  <2>5. \A q \in Reclaimers : rpc[q] = "deadlettering" =>
          rpc'[q] = "deadlettering" /\ doomed'[q] = doomed[q]
    BY <2>3
  <2>. QED
    BY <2>3, <2>4, <2>5, DeadLettersKept
<1>7. ASSUME NEW r \in Reclaimers, ReclaimerDlq(r) PROVE DeadLetterInv'
  <2>1. /\ UNCHANGED <<state, pc, msg>> /\ dlq' = dlq \cup {doomed[r]}
        /\ \A q \in Reclaimers : q # r => rpc'[q] = rpc[q] /\ doomed'[q] = doomed[q]
    BY <1>7 DEF ReclaimerDlq
  <2>2. \A q \in Reclaimers : rpc[q] = "deadlettering" =>
          (rpc'[q] = "deadlettering" /\ doomed'[q] = doomed[q]) \/ doomed[q] \in dlq'
    BY <2>1
  <2>3. dlq \subseteq dlq' /\ UNCHANGED <<state, pc, msg>>
    BY <2>1
  <2>. QED
    BY <2>2, <2>3, DeadLettersKept
<1>8. ASSUME NEW r \in Reclaimers, Tick(r) \/ TickFails(r), ~ FailExhausted(r), ~ ReclaimerDlq(r)
      PROVE  DeadLetterInv'
  <2>1. \A i \in Jobs : state'[i] = "failed_terminal" => state[i] = "failed_terminal"
    BY <1>8 DEF Tick, TickFails, SelectExpired, ResetToPending, WriteRow, ReclaimerDlqFails,
         AckStale, ReEnqueue, ReEnqueueFails, EndTick
  <2>2. /\ UNCHANGED <<dlq, pc, msg>>
        /\ \A q \in Reclaimers : rpc[q] = "deadlettering" => rpc'[q] = rpc[q] /\ doomed'[q] = doomed[q]
    BY <1>8 DEF Tick, TickFails, SelectExpired, ResetToPending, ReclaimerDlqFails,
         AckStale, ReEnqueue, ReEnqueueFails, EndTick, DeadLettersSent, XAdd
  <2>. QED
    BY <2>1, <2>2, DeadLettersKept
<1>9. CASE UNCHANGED vars
  BY <1>9, DeadLettersKept DEF vars
<1>. QED
  BY <1>1, <1>2, <1>3, <1>4, <1>5, <1>6, <1>7, <1>8, <1>9 DEF Next, Work

(***************************************************************************)
(* No failure is silent: a job that failed for good, by its worker or by   *)
(* any number of reclaimers, is in the DLQ or on its way there, unless a   *)
(* process dies before its XADD, or the XADD fails.                        *)
(***************************************************************************)
THEOREM DeadLettered == DeadLettersSent => (Spec => []DeadLetterInv)
<1>. SUFFICES ASSUME DeadLettersSent PROVE Spec => []DeadLetterInv
  OBVIOUS
<1>1. Init => TypeOK /\ DeadLetterInv
  BY InitType DEF Init, DeadLetterInv
<1>. QED
  BY <1>1, NextType, DeadLetterStep, PTL DEF Spec

=============================================================================
