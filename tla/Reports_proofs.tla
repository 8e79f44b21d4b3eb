--------------------------- MODULE Reports_proofs ---------------------------
(***************************************************************************)
(* Theorems about Reports for any number of workers, reclaimers and        *)
(* requests, and every failure of the queue below.                         *)
(***************************************************************************)
EXTENDS Reports, LeaseQueue_proofs

\* The steps of the queue that leave the report alone are steps of LeaseQueue.
LEMMA CarryIsNext == Carry => Next
  BY ReportAssumption DEF Carry, Next, Produce, Work

LEMMA ReportTypeInit == ReportInit => ReportTypeOK
<1>. SUFFICES ASSUME ReportInit PROVE ReportTypeOK
  OBVIOUS
<1>1. TypeOK
  BY InitType DEF ReportInit
<1>2. /\ status \in Status /\ asking \in [Clients -> (Status \ Reusable) \cup {"no"}] /\ phase \in [Workers -> Phase]
      /\ stored \in BOOLEAN /\ raced \in BOOLEAN /\ file \in File
      /\ pruning \in {"idle", "found", "unlinked"}
  BY DEF ReportInit, Status, Phase, File
<1>3. \A w \in Workers : phase[w] # "none" <=> pc[w] = "executing"
  BY DEF ReportInit, Init
<1>. QED
  BY <1>1, <1>2, <1>3 DEF ReportTypeOK

\* What the API reads, the executor does on its own and prune_reports does is
\* no step of the queue.
LEMMA QueueUntouched ==
  /\ \A c \in Clients : RequestReport(c) => UNCHANGED vars
  /\ \A w \in Workers : Generate(w) => UNCHANGED vars
  /\ Prune => UNCHANGED vars
BY DEF RequestReport, Generate, LoadReport, MarkRunning, OpenFile, WriteFile, GenerationFails,
   MarkFails, Prune, PruneFind, PruneUnlink, PruneRow, PruneStops

\* A reset of the job is no step of LeaseQueue.
LEMMA ResetType ==
  ASSUME TypeOK, ResetJob, outbox' = outbox \cup {report}, UNCHANGED <<redis, worker, reclaim>>
  PROVE  TypeOK'
  BY ReportAssumption, ConstantsAssumption
     DEF TypeOK, ResetJob, WriteRow, JobState, redis, worker, reclaim

LEMMA ReplayType ==
  ASSUME TypeOK, ReplayReport
  PROVE  TypeOK'
<1>1. CASE ResetJob
  BY <1>1, ResetType DEF ReplayReport
<1>2. CASE UNCHANGED row
  BY <1>2, ReportAssumption DEF ReplayReport, TypeOK, row, redis, worker, reclaim
<1>. QED
  BY <1>1, <1>2 DEF ReplayReport

\* Which of the queue's steps a step of the worker's executor is.
LEMMA ExecutorSteps ==
  ASSUME NEW w \in Workers
  PROVE  /\ StartReport(w) => Next
         /\ ReleaseReport(w) => Next
         /\ AbortReport(w) => Next
         /\ StopReport(w) => Next
  BY DEF StartReport, ReleaseReport, Verdict, AbortReport, StopReport, Next, Work, Outcome

LEMMA ReportTypeStep == ReportTypeOK /\ [ReportNext]_allVars => ReportTypeOK'
<1>. SUFFICES ASSUME ReportTypeOK, [ReportNext]_allVars PROVE ReportTypeOK'
  OBVIOUS
<1>. USE DEF disk
<1>0. TypeOK
  BY DEF ReportTypeOK
<1>1. ASSUME NEW c \in Clients, RequestReport(c) PROVE ReportTypeOK'
  <2>1. TypeOK'
    BY <1>0, <1>1, NextType DEF RequestReport
  <2>. QED
    BY <1>1, <2>1 DEF RequestReport, ReportTypeOK, vars, worker
<1>2. ASSUME NEW c \in Clients, WriteReport(c) PROVE ReportTypeOK'
  BY <1>0, <1>2, ResetType DEF WriteReport, ReportTypeOK, Status, worker
<1>3. ASSUME NEW w \in Workers, StartReport(w) PROVE ReportTypeOK'
  <2>1. TypeOK'
    BY <1>0, <1>3, NextType, ExecutorSteps
  <2>2. pc' = [pc EXCEPT ![w] = "executing"] /\ pc \in [Workers -> WorkerPc]
    BY <1>0, <1>3 DEF StartReport, ClaimJob, TypeOK
  <2>. QED
    BY <1>3, <2>1, <2>2 DEF StartReport, EnterPhase, ReportTypeOK, Phase
<1>4. ASSUME NEW w \in Workers, Generate(w) PROVE ReportTypeOK'
  <2>1. UNCHANGED vars
    BY <1>4, QueueUntouched
  <2>2. TypeOK' /\ UNCHANGED pc
    BY <1>0, <2>1, NextType DEF vars, worker
  <2>3. CASE LoadReport(w) \/ MarkRunning(w) \/ GenerationFails(w) \/ MarkFails(w)
    BY <2>2, <2>3 DEF LoadReport, MarkRunning, GenerationFails, MarkFails, EnterPhase,
         ReportTypeOK, Status, Phase
  <2>4. CASE OpenFile(w) \/ WriteFile(w)
    BY <2>2, <2>4 DEF OpenFile, WriteFile, EnterPhase, ReportTypeOK, File, Phase
  <2>. QED
    BY <1>4, <2>3, <2>4 DEF Generate
<1>5. ASSUME NEW w \in Workers, ReleaseReport(w) \/ AbortReport(w) \/ StopReport(w)
      PROVE  ReportTypeOK'
  <2>1. TypeOK'
    BY <1>0, <1>5, NextType, ExecutorSteps
  <2>2. pc' \in [Workers -> WorkerPc] /\ pc \in [Workers -> WorkerPc]
    BY <1>0, <2>1 DEF TypeOK
  <2>3. pc'[w] # "executing" /\ \A v \in Workers : v # w => pc'[v] = pc[v]
    BY <1>5, <2>2 DEF ReleaseReport, Verdict, AbortReport, StopReport, ReleaseAndCommit,
         AbortStolen, Fail, Die, MessageError, ToIdle
  <2>. QED
    BY <1>5, <2>1, <2>3 DEF ReleaseReport, AbortReport, StopReport, EnterPhase, ReportTypeOK,
         Phase, Status
<1>6. CASE ReplayReport
  <2>1. TypeOK' /\ UNCHANGED pc
    BY <1>0, <1>6, ReplayType DEF ReplayReport, worker
  <2>. QED
    BY <1>6, <2>1 DEF ReplayReport, ReportTypeOK, InHand
<1>7. CASE Prune
  <2>1. TypeOK' /\ UNCHANGED pc
    BY <1>0, <1>7, QueueUntouched, NextType DEF vars, worker
  <2>. QED
    BY <1>7, <2>1 DEF Prune, PruneFind, PruneUnlink, PruneRow, PruneStops, reportVars,
         ReportTypeOK, File
<1>8. CASE Carry /\ UNCHANGED <<reportVars, disk>>
  <2>1. TypeOK'
    BY <1>0, <1>8, NextType, CarryIsNext
  <2>2. \A w \in Workers : pc'[w] = "executing" <=> pc[w] = "executing"
    <3>1. CASE Publish(report) \/ PublishFails(report) \/ Expire(report) \/ LapseAtWork(report)
      BY <3>1 DEF Publish, PublishFails, Expire, LapseAtWork, worker
    <3>2. ASSUME NEW w \in Workers,
                 ConsumeNext(w) \/ ClaimRefused(w) \/ RenewLease(w) \/ AckMessage(w)
                   \/ EnqueueDlq(w) \/ EnqueueDlqFails(w)
          PROVE  \A v \in Workers : pc'[v] = "executing" <=> pc[v] = "executing"
      <4>. pc \in [Workers -> WorkerPc]
        BY <1>0 DEF TypeOK
      <4>. QED
        BY <3>2 DEF ConsumeNext, ClaimRefused, RenewLease, AckMessage, EnqueueDlq,
             EnqueueDlqFails, ToIdle, ReadyToAck
    <3>3. ASSUME NEW r \in Reclaimers, Tick(r) \/ TickFails(r) PROVE UNCHANGED pc
      BY <3>3 DEF Tick, TickFails, SelectExpired, ResetToPending, FailExhausted, ReclaimerDlq,
           ReclaimerDlqFails, AckStale, ReEnqueue, ReEnqueueFails, EndTick, worker
    <3>. QED
      BY <1>8, <3>1, <3>2, <3>3 DEF Carry
  <2>. QED
    BY <1>8, <2>1, <2>2 DEF reportVars, ReportTypeOK
<1>9. CASE UNCHANGED allVars
  <2>1. TypeOK'
    BY <1>0, <1>9, NextType DEF allVars
  <2>. QED
    BY <1>9, <2>1 DEF allVars, reportVars, vars, worker, ReportTypeOK
<1>. QED
  BY <1>1, <1>2, <1>3, <1>4, <1>5, <1>6, <1>7, <1>8, <1>9 DEF ReportNext

(***************************************************************************)
(* Type correctness: the executor of a worker is in a phase exactly while  *)
(* the worker executes.                                                    *)
(***************************************************************************)
THEOREM ReportTypeCorrect == ReportSpec => []ReportTypeOK
BY ReportTypeInit, ReportTypeStep, PTL DEF ReportSpec

-----------------------------------------------------------------------------
(* One attempt *)

LEMMA AllJobs == \A w \in Workers : TypeOK /\ pc[w] \notin {"idle", "dead"} => msg[w].job = report
  BY WorkerHoldsEntry, ReportAssumption

\* What a release does to the row of the report.
LEMMA ReleaseEffect ==
  ASSUME TypeOK, NEW w \in Workers, NEW s \in Outcome, ReleaseAndCommit(w, s)
  PROVE  state'[report] = s /\ UNCHANGED <<attempts, rows>>
<1>1. msg[w].job = report
  BY AllJobs DEF ReleaseAndCommit
<1>. QED
  BY <1>1, ReportAssumption DEF ReleaseAndCommit, reclaim

\* What a reclaimer does to the row: it never offers it again.
LEMMA ReclaimerEffect ==
  ASSUME ReportTypeOK, SpentInv, NEW r \in Reclaimers, Tick(r) \/ TickFails(r)
  PROVE  /\ state'[report] \in {state[report], "failed_terminal"}
         /\ UNCHANGED attempts
         /\ \A q \in Reclaimers : \A x \in rows'[q] : x.attempts >= 1
<1>. USE ReportAssumption DEF SpentInv, reclaim, row
<1>0. /\ state \in [Jobs -> JobState] /\ attempts \in [Jobs -> Nat]
      /\ rows \in [Reclaimers -> SUBSET Snapshot]
  BY DEF ReportTypeOK, TypeOK
<1>1. CASE SelectExpired(r)
  <2>1. ASSUME NEW j \in Expired PROVE j = report /\ attempts[j] >= 1
    BY <2>1 DEF Expired
  <2>2. \A x \in rows'[r] : x.attempts >= 1
    BY <1>0, <1>1, <2>1 DEF SelectExpired
  <2>. QED
    BY <1>0, <1>1, <2>2 DEF SelectExpired
<1>2. CASE ResetToPending(r)
  <2>1. PICK x \in rows[r] : x.attempts < MaxAttempts
    BY <1>2 DEF ResetToPending
  <2>2. x.attempts \in Nat /\ x.attempts >= 1
    BY <1>0, <2>1 DEF Snapshot
  <2>. QED
    BY <2>1, <2>2
<1>3. CASE FailExhausted(r)
  <2>1. PICK x \in rows[r] : /\ WriteRow(x.job, "failed_terminal")
                             /\ rows' = [rows EXCEPT ![r] = @ \ {x}]
    BY <1>3 DEF FailExhausted
  <2>2. x.job = report
    BY <1>0, <2>1 DEF Snapshot
  <2>. QED
    BY <1>0, <1>3, <2>1, <2>2 DEF FailExhausted, WriteRow
<1>4. CASE ReclaimerDlq(r) \/ ReclaimerDlqFails(r) \/ ReEnqueue(r) \/ ReEnqueueFails(r) \/ EndTick(r)
  BY <1>4 DEF ReclaimerDlq, ReclaimerDlqFails, ReEnqueue, ReEnqueueFails, EndTick
<1>5. CASE \E stale \in SUBSET MayBeStale : AckStale(r, stale)
  BY <1>5 DEF AckStale
<1>6. CASE TickFails(r)
  BY <1>0, <1>6 DEF TickFails
<1>. QED
  BY <1>1, <1>2, <1>3, <1>4, <1>5, <1>6 DEF Tick

\* What the rest of the queue does to it: nothing.
LEMMA CarryEffect ==
  ASSUME ReportTypeOK, SpentInv, Carry
  PROVE  /\ state'[report] \in {state[report], "failed_terminal"}
         /\ UNCHANGED attempts
         /\ \A r \in Reclaimers : \A x \in rows'[r] : x.attempts >= 1
<1>1. CASE Publish(report) \/ PublishFails(report) \/ Expire(report) \/ LapseAtWork(report)
  BY <1>1 DEF Publish, PublishFails, Expire, LapseAtWork, SpentInv, row, reclaim
<1>2. ASSUME NEW w \in Workers,
             ConsumeNext(w) \/ ClaimRefused(w) \/ RenewLease(w) \/ AckMessage(w)
               \/ EnqueueDlq(w) \/ EnqueueDlqFails(w)
      PROVE  UNCHANGED <<state, attempts, rows>>
  BY <1>2 DEF ConsumeNext, ClaimRefused, RenewLease, AckMessage, EnqueueDlq, EnqueueDlqFails,
       row, reclaim
<1>. QED
  BY <1>1, <1>2, ReclaimerEffect DEF Carry, SpentInv

LEMMA SpentStep == ReportTypeOK /\ SpentInv /\ [ReportNext]_allVars => SpentInv'
<1>. SUFFICES ASSUME ReportTypeOK, SpentInv, [ReportNext]_allVars PROVE SpentInv'
  OBVIOUS
<1>. USE ReportAssumption DEF SpentInv
<1>0. TypeOK
  BY DEF ReportTypeOK
<1>1. CASE ResetJob /\ UNCHANGED reclaim
  BY <1>0, <1>1 DEF ResetJob, WriteRow, reclaim, TypeOK
<1>2. ASSUME NEW w \in Workers, StartReport(w) PROVE SpentInv'
  <2>1. ClaimJob(w) /\ msg[w].job = report
    BY <1>0, <1>2, AllJobs DEF StartReport, ClaimJob
  <2>2. attempts'[report] = attempts[report] + 1 /\ attempts[report] \in Nat /\ UNCHANGED rows
    BY <1>0, <2>1 DEF ClaimJob, TypeOK, reclaim
  <2>. QED
    BY <2>2
<1>3. CASE UNCHANGED <<row, reclaim>>
  BY <1>3 DEF row, reclaim
<1>4. ASSUME NEW w \in Workers, ReleaseReport(w) PROVE SpentInv'
  <2>1. PICK s \in {"succeeded", "failed_terminal"} : ReleaseAndCommit(w, s)
    BY <1>4 DEF ReleaseReport, Verdict
  <2>2. state'[report] = s /\ UNCHANGED <<attempts, rows>>
    BY <1>0, <2>1, ReleaseEffect DEF Outcome
  <2>. QED
    BY <2>2
<1>5. ASSUME NEW w \in Workers, AbortReport(w) \/ StopReport(w) PROVE UNCHANGED <<row, reclaim>>
  BY <1>5 DEF AbortReport, StopReport, AbortStolen, Fail, Die, MessageError
<1>6. CASE Carry
  BY <1>6, CarryEffect
<1>7. ASSUME NEW c \in Clients, WriteReport(c) PROVE ResetJob /\ UNCHANGED reclaim
  BY <1>7 DEF WriteReport
<1>8. CASE ReplayReport
  BY <1>1, <1>3, <1>8 DEF ReplayReport
<1>. QED
  BY <1>1, <1>2, <1>3, <1>4, <1>5, <1>6, <1>7, <1>8, QueueUntouched DEF ReportNext, allVars, vars

-----------------------------------------------------------------------------
(* One generator *)

\* raced is never taken back.
LEMMA RacedStays == ReportTypeOK /\ [ReportNext]_allVars /\ ~raced' => ~raced
<1>. SUFFICES ASSUME ReportTypeOK, [ReportNext]_allVars, raced PROVE raced'
  BY DEF ReportTypeOK
<1>1. ASSUME NEW c \in Clients, RequestReport(c) \/ WriteReport(c) PROVE raced'
  BY <1>1 DEF RequestReport, WriteReport
<1>2. ASSUME NEW w \in Workers, StartReport(w) \/ ReleaseReport(w) \/ AbortReport(w) \/ StopReport(w)
      PROVE  raced'
  BY <1>2 DEF StartReport, ReleaseReport, AbortReport, StopReport
<1>3. ASSUME NEW w \in Workers, Generate(w) PROVE raced'
  BY <1>3 DEF Generate, LoadReport, MarkRunning, OpenFile, WriteFile, GenerationFails, MarkFails
<1>4. CASE ReplayReport \/ Prune
  BY <1>4 DEF ReplayReport, Prune, PruneFind, PruneUnlink, PruneRow, PruneStops, reportVars
<1>5. CASE UNCHANGED reportVars
  BY <1>5 DEF reportVars
<1>. QED
  BY <1>1, <1>2, <1>3, <1>4, <1>5 DEF ReportNext, allVars

\* A reset without a race: nobody is at work, and no report is taken back.
LEMMA StatusReset ==
  ASSUME ReportTypeOK, StatusInv, ~InHand, ResetJob, UNCHANGED <<phase, disk>>,
         \/ UNCHANGED <<status, stored>>
         \/ status \notin Reusable /\ status' = "pending" /\ stored' = FALSE
  PROVE  StatusInv'
<1>1. state'[report] = "pending"
  BY ReportAssumption DEF ReportTypeOK, TypeOK, ResetJob, WriteRow
<1>2. \A w \in Workers : ~Unsettled(w) /\ ~Unsettled(w)'
  BY DEF InHand, Unsettled
<1>3. \A w \in Workers : phase'[w] \notin {"writing", "written"}
  BY <1>2 DEF Unsettled
<1>. QED
  BY <1>1, <1>2, <1>3 DEF StatusInv, Reusable, disk

\* A request that writes over the status it has read finds no job in hand.
LEMMA RequestUnraced ==
  ASSUME ReportTypeOK, NEW c \in Clients, WriteReport(c), ~raced'
  PROVE  ~InHand /\ status = asking[c] /\ status \notin Reusable
<1>1. status = asking[c] /\ ~HiddenInHand /\ asking[c] \in Status \ Reusable
  BY DEF WriteReport, ReportTypeOK
<1>. QED
  BY <1>1 DEF HiddenInHand, Reusable

\* The executor of w, the only one unsettled, goes on.
LEMMA StatusGenerate ==
  ASSUME ReportTypeOK, StatusInv, NEW w \in Workers, Generate(w)
  PROVE  StatusInv'
<1>. USE DEF StatusInv, Unsettled
<1>0. phase \in [Workers -> Phase] /\ UNCHANGED state
  BY QueueUntouched DEF ReportTypeOK, vars, row
<1>1. \A v \in Workers : v # w => ~Unsettled(v) /\ phase'[v] = phase[v]
  BY <1>0 DEF Generate, LoadReport, MarkRunning, OpenFile, WriteFile, GenerationFails, MarkFails,
     EnterPhase
<1>2. CASE LoadReport(w)
  BY <1>0, <1>1, <1>2 DEF LoadReport, EnterPhase, disk
<1>3. CASE MarkRunning(w)
  <2>1. status # "success"
    BY <1>3 DEF MarkRunning
  <2>. QED
    BY <1>0, <1>1, <1>3, <2>1 DEF MarkRunning, EnterPhase, disk
<1>4. CASE GenerationFails(w) \/ MarkFails(w)
  <2>1. status # "success" /\ status' # "success"
    BY <1>4 DEF GenerationFails, MarkFails
  <2>. QED
    BY <1>0, <1>1, <1>4, <2>1 DEF GenerationFails, MarkFails, EnterPhase, disk
<1>5. CASE OpenFile(w) \/ WriteFile(w)
  <2>1. status # "success"
    BY <1>5 DEF OpenFile, WriteFile
  <2>. QED
    BY <1>0, <1>1, <1>5, <2>1 DEF OpenFile, WriteFile, EnterPhase
<1>. QED
  BY <1>2, <1>3, <1>4, <1>5 DEF Generate

LEMMA StatusRelease ==
  ASSUME ReportTypeOK, StatusInv, NEW w \in Workers, ReleaseReport(w)
  PROVE  StatusInv'
<1>. USE DEF StatusInv, Unsettled
<1>0. TypeOK /\ phase \in [Workers -> Phase]
  BY DEF ReportTypeOK
<1>1. PICK s \in {"succeeded", "failed_terminal"} :
        /\ ReleaseAndCommit(w, s)
        /\ s = "succeeded" <=> phase[w] # "failed"
  BY DEF ReleaseReport, Verdict
<1>2. state'[report] = s
  BY <1>0, <1>1, ReleaseEffect DEF Outcome
<1>3. /\ UNCHANGED disk /\ phase' = [phase EXCEPT ![w] = "none"]
      /\ status' = IF phase[w] = "written" THEN "success" ELSE status
      /\ stored' = (phase[w] = "written" \/ stored)
      /\ phase[w] \in {"written", "noop", "failed"}
  BY DEF ReleaseReport, EnterPhase, AtRelease
<1>4. CASE phase[w] = "written"
  BY <1>0, <1>1, <1>2, <1>3, <1>4 DEF disk
<1>5. CASE phase[w] # "written"
  BY <1>0, <1>1, <1>2, <1>3, <1>5 DEF disk, ReportTypeOK
<1>. QED
  BY <1>4, <1>5

LEMMA StatusStep ==
  ASSUME ReportTypeOK, ReportTypeOK', SpentInv, UnracedInv, [ReportNext]_allVars
  PROVE  UnracedInv'
<1>. SUFFICES ASSUME ~raced' PROVE StatusInv'
  BY DEF UnracedInv
<1>. USE ReportAssumption DEF Unsettled
<1>0. /\ TypeOK /\ state \in [Jobs -> JobState] /\ phase \in [Workers -> Phase]
      /\ StatusInv
  BY RacedStays DEF ReportTypeOK, TypeOK, UnracedInv
<1>1. ASSUME NEW c \in Clients, RequestReport(c) PROVE StatusInv'
  BY <1>0, <1>1 DEF RequestReport, vars, row, disk, StatusInv
<1>2. ASSUME NEW c \in Clients, WriteReport(c) PROVE StatusInv'
  <2>1. ~InHand /\ status \notin Reusable
    BY <1>2, RequestUnraced
  <2>. QED
    BY <1>0, <1>2, <2>1, StatusReset DEF WriteReport
<1>3. ASSUME NEW w \in Workers, StartReport(w) PROVE StatusInv'
  <2>1. ClaimJob(w) /\ msg[w].job = report
    BY <1>0, <1>3, AllJobs DEF StartReport, ClaimJob
  <2>2. state[report] = "pending" /\ state'[report] = "leased"
    BY <1>0, <2>1 DEF ClaimJob
  <2>3. UNCHANGED <<status, stored, disk>> /\ phase' = [phase EXCEPT ![w] = "loading"]
    BY <1>3 DEF StartReport, EnterPhase
  <2>. QED
    BY <1>0, <2>2, <2>3 DEF StatusInv, disk
<1>4. ASSUME NEW w \in Workers, AbortReport(w) \/ StopReport(w) PROVE StatusInv'
  BY <1>0, <1>4 DEF AbortReport, StopReport, AbortStolen, Fail, Die, MessageError, EnterPhase,
     row, disk, StatusInv
<1>5. CASE ReplayReport
  <2>1. CASE ResetJob /\ raced' = (raced \/ InHand)
    <3>1. ~InHand
      BY <2>1
    <3>. QED
      BY <1>0, <1>5, <2>1, <3>1, StatusReset DEF ReplayReport
  <2>2. CASE UNCHANGED row
    BY <1>0, <1>5, <2>2 DEF ReplayReport, row, disk, StatusInv
  <2>. QED
    BY <1>5, <2>1, <2>2 DEF ReplayReport
<1>6. CASE Prune
  <2>1. UNCHANGED <<state, phase, status>>
    BY <1>6, QueueUntouched DEF Prune, PruneFind, PruneUnlink, PruneRow, PruneStops,
       reportVars, vars, row
  <2>. QED
    BY <1>0, <1>6, <2>1 DEF Prune, PruneFind, PruneUnlink, PruneRow, PruneStops, reportVars,
       StatusInv
<1>7. CASE Carry /\ UNCHANGED <<reportVars, disk>>
  BY <1>0, <1>7, CarryEffect DEF reportVars, disk, StatusInv
<1>8. CASE UNCHANGED allVars
  BY <1>0, <1>8 DEF allVars, reportVars, disk, vars, row, StatusInv
<1>. QED
  BY <1>0, <1>1, <1>2, <1>3, <1>4, <1>5, <1>6, <1>7, <1>8, StatusGenerate, StatusRelease
     DEF ReportNext

LEMMA UnracedAlways == ReportSpec => [](ReportTypeOK /\ SpentInv /\ UnracedInv)
<1>1. ReportInit => UnracedInv /\ SpentInv
  BY ReportAssumption DEF ReportInit, Init, UnracedInv, StatusInv, SpentInv, Unsettled
<1>2. ReportTypeOK /\ ReportTypeOK' /\ SpentInv /\ UnracedInv /\ [ReportNext]_allVars => UnracedInv'
  BY StatusStep
<1>. QED
  BY ReportTypeInit, ReportTypeStep, SpentStep, <1>1, <1>2, PTL DEF ReportSpec

(***************************************************************************)
(* Until a reset hits a job in hand, no two workers are at work on the     *)
(* file of a report, although neither _mark_status nor the file is fenced  *)
(* by the lease: for any number of requests and replays at the same time.  *)
(***************************************************************************)
THEOREM SingleGenerator == ReportSpec => []OneGenerator
<1>1. UnracedInv => OneGenerator
  BY DEF UnracedInv, StatusInv, OneGenerator
<1>. QED
  BY UnracedAlways, <1>1, PTL

(***************************************************************************)
(* ... a job that succeeded has its report, whose path leads to the whole  *)
(* file until prune_reports has deleted it.                                *)
(***************************************************************************)
THEOREM SucceededJobs == ReportSpec => []SucceededHasReport
<1>1. UnracedInv => SucceededHasReport
  BY DEF UnracedInv, StatusInv, SucceededHasReport
<1>. QED
  BY UnracedAlways, <1>1, PTL

(***************************************************************************)
(* ... and which is never taken back.                                      *)
(***************************************************************************)
THEOREM SuccessStays == ReportSpec => SuccessIsFinal
<1>1. ReportTypeOK /\ UnracedInv /\ [ReportNext]_allVars
        => [status = "success" /\ ~raced' => status' = "success"]_allVars
  <2>. SUFFICES ASSUME ReportTypeOK, UnracedInv, ReportNext, status = "success", ~raced'
                PROVE  status' = "success"
    OBVIOUS
  <2>0. StatusInv
    BY RacedStays DEF UnracedInv
  <2>. USE <2>0 DEF StatusInv, Unsettled
  <2>1. ASSUME NEW c \in Clients, RequestReport(c) \/ WriteReport(c) PROVE status' = "success"
    BY <2>1, RequestUnraced DEF RequestReport, Reusable
  <2>2. ASSUME NEW w \in Workers, StartReport(w) \/ Generate(w) PROVE status' = "success"
    BY <2>2 DEF StartReport, Generate, LoadReport, MarkRunning, OpenFile, WriteFile,
       GenerationFails, MarkFails
  <2>3. ASSUME NEW w \in Workers, ReleaseReport(w) \/ AbortReport(w) \/ StopReport(w)
        PROVE  status' = "success"
    BY <2>3 DEF ReleaseReport, AbortReport, StopReport
  <2>4. CASE UNCHANGED reportVars
    BY <2>4 DEF reportVars
  <2>5. CASE ReplayReport \/ Prune
    BY <2>5 DEF ReplayReport, Prune, PruneFind, PruneUnlink, PruneRow, PruneStops, reportVars
  <2>. QED
    BY <2>1, <2>2, <2>3, <2>4, <2>5 DEF ReportNext
<1>. QED
  BY UnracedAlways, <1>1, PTL DEF ReportSpec, SuccessIsFinal

-----------------------------------------------------------------------------
(* No race *)

\* The API is not asked for a report twice at the same time, and the operator
\* replays nothing.
OneClient == \A c, d \in Clients : c = d
NoReplay  == "dlq_replay" \notin Scripts

LEMMA UndisturbedStep ==
  ASSUME OneClient, NoReplay, ReportTypeOK, SpentInv, UnracedInv, UndisturbedInv,
         [ReportNext]_allVars
  PROVE  UndisturbedInv'
<1>. USE ReportAssumption DEF UndisturbedInv, Unsettled
<1>0. /\ TypeOK /\ state \in [Jobs -> JobState] /\ phase \in [Workers -> Phase]
      /\ asking \in [Clients -> (Status \ Reusable) \cup {"no"}] /\ StatusInv
  BY DEF ReportTypeOK, TypeOK, UnracedInv
<1>1. ASSUME NEW c \in Clients, RequestReport(c) PROVE UndisturbedInv'
  BY <1>0, <1>1 DEF RequestReport, vars, row
<1>2. ASSUME NEW c \in Clients, WriteReport(c) PROVE UndisturbedInv'
  <2>1. status = asking[c] /\ status \notin Reusable /\ UNCHANGED phase
    BY <1>0, <1>2 DEF WriteReport
  <2>2. \A d \in Clients : asking'[d] = "no"
    BY <1>0, <1>2 DEF WriteReport, OneClient
  <2>3. ~InHand
    BY <2>1 DEF InHand, Reusable
  <2>4. status' = "pending" /\ ~raced'
    BY <1>2, <2>1, <2>3 DEF WriteReport, HiddenInHand
  <2>. QED
    BY <2>1, <2>2, <2>3, <2>4 DEF InHand
<1>3. ASSUME NEW w \in Workers, StartReport(w) PROVE UndisturbedInv'
  <2>1. ClaimJob(w) /\ msg[w].job = report
    BY <1>0, <1>3, AllJobs DEF StartReport, ClaimJob
  <2>2. state[report] = "pending" /\ state'[report] = "leased"
    BY <1>0, <2>1 DEF ClaimJob
  <2>3. UNCHANGED <<status, asking, raced>> /\ phase' = [phase EXCEPT ![w] = "loading"]
    BY <1>3 DEF StartReport, EnterPhase
  <2>. QED
    BY <1>0, <2>2, <2>3
<1>4. ASSUME NEW w \in Workers, Generate(w) PROVE UndisturbedInv'
  <2>1. UNCHANGED <<state, asking, raced>>
    BY <1>4, QueueUntouched DEF Generate, LoadReport, MarkRunning, OpenFile, WriteFile,
       GenerationFails, MarkFails, vars, row
  <2>2. Unsettled(w)
    BY <1>4 DEF Generate, LoadReport, MarkRunning, OpenFile, WriteFile, GenerationFails, MarkFails
  <2>3. /\ status \in {"pending", "running"} /\ state[report] # "pending"
        /\ \A c \in Clients : asking[c] = "no"
    BY <1>0, <2>2 DEF StatusInv, Reusable
  <2>4. \A v \in Workers : v # w => ~Unsettled(v) /\ phase'[v] = phase[v]
    BY <1>0, <1>4, <2>2 DEF Generate, LoadReport, MarkRunning, OpenFile, WriteFile,
       GenerationFails, MarkFails, EnterPhase, StatusInv
  <2>5. CASE GenerationFails(w) \/ MarkFails(w)
    BY <1>0, <2>1, <2>3, <2>4, <2>5 DEF GenerationFails, MarkFails, EnterPhase
  <2>6. CASE LoadReport(w) \/ MarkRunning(w) \/ OpenFile(w) \/ WriteFile(w)
    BY <2>1, <2>3, <2>4, <2>6 DEF LoadReport, MarkRunning, OpenFile, WriteFile
  <2>. QED
    BY <1>4, <2>5, <2>6 DEF Generate
<1>5. ASSUME NEW w \in Workers, ReleaseReport(w) PROVE UndisturbedInv'
  <2>1. PICK s \in {"succeeded", "failed_terminal"} : ReleaseAndCommit(w, s)
    BY <1>5 DEF ReleaseReport, Verdict
  <2>2. state'[report] = s
    BY <1>0, <2>1, ReleaseEffect DEF Outcome
  <2>3. UNCHANGED <<asking, raced>> /\ phase' = [phase EXCEPT ![w] = "none"]
        /\ status' = IF phase[w] = "written" THEN "success" ELSE status
    BY <1>5 DEF ReleaseReport, EnterPhase
  <2>4. CASE phase[w] = "written"
    <3>1. \A c \in Clients : asking[c] = "no"
      BY <1>0, <2>4 DEF Reusable
    <3>. QED
      BY <1>0, <2>2, <2>3, <2>4, <3>1 DEF StatusInv
  <2>5. CASE phase[w] # "written"
    BY <1>0, <2>2, <2>3, <2>5
  <2>. QED
    BY <2>4, <2>5
<1>6. ASSUME NEW w \in Workers, AbortReport(w) \/ StopReport(w) PROVE UndisturbedInv'
  BY <1>0, <1>6 DEF AbortReport, StopReport, AbortStolen, Fail, Die, MessageError, EnterPhase, row
<1>7. CASE Prune
  BY <1>7, QueueUntouched DEF Prune, PruneFind, PruneUnlink, PruneRow, PruneStops, reportVars,
     vars, row
<1>8. CASE Carry /\ UNCHANGED <<reportVars, disk>>
  BY <1>8, CarryEffect DEF reportVars
<1>9. CASE UNCHANGED allVars
  BY <1>9 DEF allVars, reportVars, vars, row
<1>10. ~ReplayReport
  BY DEF ReplayReport, NoReplay
<1>. QED
  BY <1>1, <1>2, <1>3, <1>4, <1>5, <1>6, <1>7, <1>8, <1>9, <1>10 DEF ReportNext

(***************************************************************************)
(* Requests that do not overlap race with nothing: whatever fails, only a  *)
(* second request at the same time (reports.py:141) or a replay can reset  *)
(* a job in hand.  The theorems above then hold in every state.            *)
(***************************************************************************)
THEOREM Undisturbed == OneClient /\ NoReplay => (ReportSpec => []~raced)
<1>. SUFFICES ASSUME OneClient, NoReplay PROVE ReportSpec => []~raced
  OBVIOUS
<1>1. ReportInit => UndisturbedInv
  BY ReportAssumption DEF ReportInit, Init, UndisturbedInv, Unsettled
<1>2. ReportTypeOK /\ SpentInv /\ UnracedInv /\ UndisturbedInv /\ [ReportNext]_allVars
        => UndisturbedInv'
  BY UndisturbedStep
<1>3. UndisturbedInv => ~raced
  BY DEF UndisturbedInv
<1>. QED
  BY UnracedAlways, <1>1, <1>2, <1>3, PTL DEF ReportSpec

-----------------------------------------------------------------------------
(* Leases under resets *)

LEMMA ReportLease == ReportTypeOK /\ LeaseInv /\ [ReportNext]_allVars => LeaseInv'
<1>. SUFFICES ASSUME ReportTypeOK, LeaseInv, [ReportNext]_allVars PROVE LeaseInv'
  OBVIOUS
<1>0. TypeOK /\ (Next => LeaseInv')
  BY NextLease DEF ReportTypeOK
<1>1. CASE ResetJob /\ UNCHANGED worker
  BY <1>0, <1>1, ReportAssumption, ConstantsAssumption
     DEF ResetJob, WriteRow, LeaseInv, TypeOK, worker
<1>2. CASE UNCHANGED <<row, worker>>
  BY <1>2 DEF LeaseInv, row, worker
<1>3. ASSUME NEW w \in Workers,
             StartReport(w) \/ ReleaseReport(w) \/ AbortReport(w) \/ StopReport(w)
      PROVE  LeaseInv'
  BY <1>0, <1>3, ExecutorSteps
<1>4. CASE Carry
  BY <1>0, <1>4, CarryIsNext
<1>5. ASSUME NEW c \in Clients, WriteReport(c) PROVE ResetJob /\ UNCHANGED worker
  BY <1>5 DEF WriteReport
<1>6. CASE ReplayReport
  BY <1>1, <1>2, <1>6 DEF ReplayReport
<1>. QED
  BY <1>1, <1>2, <1>3, <1>4, <1>5, <1>6, QueueUntouched DEF ReportNext, allVars, vars

(***************************************************************************)
(* The lease fences the job under resets too: whatever requests and        *)
(* replays have done to the row under a worker, raced or not, it commits   *)
(* only if the row is leased for the attempt it claimed.                   *)
(***************************************************************************)
THEOREM ResetsAreFenced == ReportSpec => OnlyLatestAttemptCommits
<1>1. ReportInit => LeaseInv
  BY InitLease DEF ReportInit
<1>2. ReportTypeOK /\ LeaseInv /\ [ReportNext]_allVars
        => [\A w \in Workers :
              (pc[w] = "executing" /\ pc'[w] \in {"enqueueing", "deadlettering", "acking"})
                => /\ claim[w] = attempts[msg[w].job]
                   /\ state[msg[w].job] = "leased"]_vars
  <2>. SUFFICES ASSUME ReportTypeOK, LeaseInv, ReportNext, NEW w \in Workers,
                       pc[w] = "executing", pc'[w] \in {"enqueueing", "deadlettering", "acking"}
                PROVE  claim[w] = attempts[msg[w].job] /\ state[msg[w].job] = "leased"
    BY DEF allVars
  <2>0. TypeOK
    BY DEF ReportTypeOK
  <2>1. CASE Next
    BY <2>0, <2>1, CommitIsLatest
  <2>2. ASSUME UNCHANGED pc PROVE FALSE
    BY <2>2
  <2>3. ASSUME NEW c \in Clients, RequestReport(c) \/ WriteReport(c) PROVE UNCHANGED pc
    BY <2>3 DEF RequestReport, WriteReport, vars, worker
  <2>4. ASSUME NEW v \in Workers, Generate(v) PROVE UNCHANGED pc
    BY <2>4, QueueUntouched DEF vars, worker
  <2>5. CASE ReplayReport \/ Prune
    BY <2>2, <2>5, QueueUntouched DEF ReplayReport, vars, worker
  <2>. QED
    BY <2>1, <2>2, <2>3, <2>4, <2>5, ExecutorSteps, CarryIsNext DEF ReportNext
<1>. QED
  BY ReportTypeInit, ReportTypeStep, ReportLease, <1>1, <1>2, PTL
     DEF ReportSpec, OnlyLatestAttemptCommits

(***************************************************************************)
(* ... and loses no job by them: a row that a request or a replay has made *)
(* pending has its message, as long as nobody fails between a commit and   *)
(* its XADD or between a read and its claim, raced or not.                 *)
(***************************************************************************)
THEOREM ResetsAreDelivered == MessagesKept => (ReportSpec => []NoLostJob)
<1>. SUFFICES ASSUME MessagesKept PROVE ReportSpec => []NoLostJob
  OBVIOUS
<1>1. ReportInit => DeliveryInv
  BY InitDelivery DEF ReportInit
<1>2. ReportTypeOK /\ DeliveryInv /\ [ReportNext]_allVars => DeliveryInv'
  <2>. SUFFICES ASSUME ReportTypeOK, DeliveryInv, [ReportNext]_allVars PROVE DeliveryInv'
    OBVIOUS
  <2>. USE DEF DeliveryInv, NoLostJob, TodoInv, ToBeSent, Undelivered
  <2>0. TypeOK /\ ([Next]_vars => DeliveryInv')
    BY NextDelivery DEF ReportTypeOK
  <2>1. ASSUME outbox' = outbox \cup {report}, UNCHANGED <<redis, worker, reclaim>>
        PROVE  DeliveryInv'
    <3>1. \A j \in Jobs : j \in outbox'
      BY <2>1, ReportAssumption
    <3>. QED
      BY <2>1, <3>1 DEF redis, worker, reclaim
  <2>2. ASSUME NEW c \in Clients, WriteReport(c) PROVE DeliveryInv'
    BY <2>1, <2>2 DEF WriteReport
  <2>3. CASE ReplayReport
    BY <2>1, <2>3 DEF ReplayReport
  <2>4. CASE [Next]_vars
    BY <2>0, <2>4
  <2>. QED
    BY <2>2, <2>3, <2>4, QueueUntouched, ExecutorSteps, CarryIsNext DEF ReportNext, allVars
<1>3. DeliveryInv => NoLostJob
  BY DEF DeliveryInv
<1>. QED
  BY ReportTypeInit, ReportTypeStep, <1>1, <1>2, <1>3, PTL DEF ReportSpec

-----------------------------------------------------------------------------
(* No failure, no report that is stuck *)

\* No worker errs or dies with a job at hand.
WorkersFinish == "abandon" \notin Faults

\* Who holds the lease is at work on it, and its lease does not end.
HeldInv ==
  /\ ~lapsed[report] /\ state[report] # "retry_wait"
  /\ \A r \in Reclaimers : rows[r] = {}
  /\ state[report] = "leased" => \E w \in Workers : owner[report] = w /\ pc[w] = "executing"
  /\ \A w \in Workers : pc[w] = "executing" /\ owner[report] = w => valid[w]

\* Until a reset races, who has still to write the status holds the lease, and
\* a holder that has failed said so in the status.
VerdictInv ==
  ~raced =>
    /\ \A w \in Workers :
         /\ Unsettled(w) => owner[report] = w
         /\ phase[w] = "failed" /\ owner[report] = w => status = "failed"
    /\ status \in {"pending", "running"} => state[report] \in {"pending", "leased"}

LEMMA NothingExpires ==
  ASSUME HeartbeatsHold, ReportTypeOK, HeldInv
  PROVE  /\ ~ Expire(report) /\ ~ LapseAtWork(report) /\ Expired = {}
         /\ \A r \in Reclaimers : ~ ResetToPending(r) /\ ~ FailExhausted(r)
<1>1. state[report] = "leased" => HolderAtWork(report)
  BY AllJobs DEF HeldInv, HolderAtWork, Executing, ReportTypeOK
<1>. QED
  BY <1>1, ReportAssumption
     DEF HeldInv, HeartbeatsHold, Expire, LapseAtWork, Expired, ResetToPending, FailExhausted

\* What the queue does beside leaves the leases alone.
LEMMA HeldCarry ==
  ASSUME HeartbeatsHold, ReportTypeOK, LeaseInv, HeldInv, Carry
  PROVE  HeldInv' /\ UNCHANGED <<state, owner>>
<1>. USE ReportAssumption, ConstantsAssumption DEF row
<1>0. /\ TypeOK /\ pc \in [Workers -> WorkerPc] /\ valid \in [Workers -> BOOLEAN]
      /\ lapsed \in [Jobs -> BOOLEAN] /\ rows \in [Reclaimers -> SUBSET Snapshot]
  BY DEF ReportTypeOK, TypeOK
<1>1. CASE Publish(report) \/ PublishFails(report) \/ Expire(report) \/ LapseAtWork(report)
  BY <1>1, NothingExpires DEF Publish, PublishFails, HeldInv, worker, reclaim
<1>2. ASSUME NEW w \in Workers,
             ConsumeNext(w) \/ ClaimRefused(w) \/ AckMessage(w) \/ EnqueueDlq(w) \/ EnqueueDlqFails(w)
      PROVE  HeldInv' /\ UNCHANGED <<state, owner>>
  <2>1. /\ UNCHANGED <<row, valid, rows>>
        /\ \A v \in Workers : pc'[v] = "executing" <=> pc[v] = "executing"
    BY <1>0, <1>2 DEF ConsumeNext, ClaimRefused, AckMessage, EnqueueDlq, EnqueueDlqFails,
       ToIdle, ReadyToAck, reclaim
  <2>. QED
    BY <2>1 DEF HeldInv
<1>3. ASSUME NEW w \in Workers, RenewLease(w) PROVE HeldInv' /\ UNCHANGED <<state, owner>>
  <2>1. msg[w].job = report
    BY <1>0, <1>3, AllJobs DEF RenewLease
  <2>2. /\ UNCHANGED <<state, owner, pc, rows>> /\ ~lapsed'[report]
        /\ owner[report] = w => valid'[w]
        /\ \A v \in Workers : v # w => valid'[v] = valid[v]
    BY <1>0, <1>3, <2>1 DEF RenewLease, HeldInv, LeaseInv, reclaim
  <2>. QED
    BY <1>3, <2>2 DEF HeldInv
<1>4. ASSUME NEW r \in Reclaimers, Tick(r) \/ TickFails(r) PROVE HeldInv' /\ UNCHANGED <<state, owner>>
  <2>1. UNCHANGED <<row, pc, valid>> /\ \A q \in Reclaimers : rows'[q] = {}
    <3>1. CASE SelectExpired(r)
      BY <1>0, <3>1, NothingExpires DEF SelectExpired, HeldInv, worker
    <3>2. CASE TickFails(r)
      BY <1>0, <3>2 DEF TickFails, HeldInv, worker
    <3>3. CASE \E stale \in SUBSET MayBeStale : AckStale(r, stale)
      BY <3>3 DEF AckStale, HeldInv, worker
    <3>4. CASE ReclaimerDlq(r) \/ ReclaimerDlqFails(r) \/ ReEnqueue(r) \/ ReEnqueueFails(r) \/ EndTick(r)
      BY <3>4 DEF ReclaimerDlq, ReclaimerDlqFails, ReEnqueue, ReEnqueueFails, EndTick, HeldInv, worker
    <3>. QED
      BY <1>4, <3>1, <3>2, <3>3, <3>4, NothingExpires DEF Tick
  <2>. QED
    BY <2>1 DEF HeldInv
<1>. QED
  BY <1>1, <1>2, <1>3, <1>4 DEF Carry

\* The leases when a worker stops without a release: it had lost the job.
LEMMA HeldStop ==
  ASSUME WorkersFinish, ReportTypeOK, HeldInv, NEW w \in Workers, AbortReport(w) \/ StopReport(w)
  PROVE  HeldInv' /\ UNCHANGED <<state, owner>>
<1>0. TypeOK /\ pc \in [Workers -> WorkerPc]
  BY DEF ReportTypeOK, TypeOK
<1>1. /\ UNCHANGED <<row, valid, rows>>
      /\ pc'[w] # "executing" /\ \A v \in Workers : v # w => pc'[v] = pc[v]
  BY <1>0 DEF AbortReport, StopReport, AbortStolen, Fail, Die, MessageError, ToIdle, reclaim
<1>2. pc[w] = "executing" => owner[report] # w
  <2>1. CASE AbortReport(w)
    BY <1>0, <2>1, AllJobs DEF AbortReport, AbortStolen, HeldInv
  <2>2. CASE StopReport(w)
    BY <2>2 DEF StopReport, Fail, Die, MessageError, MayDie, ErrorEscapes, ReadyToAck, WorkersFinish
  <2>. QED
    BY <2>1, <2>2
<1>. QED
  BY <1>1, <1>2 DEF HeldInv, row

LEMMA HeldStep ==
  ASSUME HeartbeatsHold, WorkersFinish, ReportTypeOK, ReportTypeOK', LeaseInv, UnracedInv,
         HeldInv, VerdictInv, [ReportNext]_allVars
  PROVE  HeldInv' /\ VerdictInv'
<1>. USE ReportAssumption, ConstantsAssumption
<1>0. /\ TypeOK /\ state \in [Jobs -> JobState] /\ phase \in [Workers -> Phase]
      /\ owner \in [Jobs -> Workers \cup {NoWorker}] /\ lapsed \in [Jobs -> BOOLEAN]
      /\ pc \in [Workers -> WorkerPc] /\ valid \in [Workers -> BOOLEAN]
      /\ rows \in [Reclaimers -> SUBSET Snapshot]
  BY DEF ReportTypeOK, TypeOK
<1>1. CASE UNCHANGED <<row, worker, reclaim, status, phase, raced>>
  BY <1>1 DEF HeldInv, VerdictInv, Unsettled, row, worker, reclaim
<1>2. ASSUME NEW c \in Clients, WriteReport(c) PROVE HeldInv' /\ VerdictInv'
  <2>1. state'[report] = "pending" /\ owner'[report] = NoWorker /\ ~lapsed'[report]
    BY <1>0, <1>2 DEF WriteReport, ResetJob, WriteRow
  <2>2. UNCHANGED <<pc, valid, rows, phase>>
    BY <1>2 DEF WriteReport, worker, reclaim
  <2>3. ~raced' => \A w \in Workers : ~Unsettled(w)
    BY <1>2, RequestUnraced DEF InHand
  <2>. QED
    BY <2>1, <2>2, <2>3 DEF HeldInv, VerdictInv, Unsettled
<1>3. ASSUME NEW w \in Workers, StartReport(w) PROVE HeldInv' /\ VerdictInv'
  <2>1. ClaimJob(w) /\ msg[w].job = report
    BY <1>0, <1>3, AllJobs DEF StartReport, ClaimJob
  <2>2. /\ state[report] = "pending" /\ state'[report] = "leased" /\ owner'[report] = w
        /\ ~lapsed'[report] /\ valid'[w] /\ pc'[w] = "executing" /\ rows' = rows
    BY <1>0, <2>1 DEF ClaimJob, reclaim
  <2>3. UNCHANGED <<status, raced>> /\ phase' = [phase EXCEPT ![w] = "loading"]
    BY <1>3 DEF StartReport, EnterPhase
  <2>4. ~raced => \A v \in Workers : ~Unsettled(v)
    BY <2>2 DEF UnracedInv, StatusInv
  <2>. QED
    BY <1>0, <2>2, <2>3, <2>4 DEF HeldInv, VerdictInv, Unsettled
<1>4. ASSUME NEW w \in Workers, Generate(w) PROVE HeldInv' /\ VerdictInv'
  <2>1. UNCHANGED <<row, pc, valid, rows, raced>>
    BY <1>4, QueueUntouched DEF Generate, LoadReport, MarkRunning, OpenFile, WriteFile,
       GenerationFails, MarkFails, vars, worker, reclaim
  <2>2. HeldInv'
    BY <2>1 DEF HeldInv, row
  <2>3. Unsettled(w) /\ ~MarkFails(w)
    BY <1>4 DEF Generate, LoadReport, MarkRunning, OpenFile, WriteFile, GenerationFails, MarkFails,
       Unsettled, WorkersFinish
  <2>4. \A v \in Workers : v # w => phase'[v] = phase[v]
    BY <1>0, <1>4 DEF Generate, LoadReport, MarkRunning, OpenFile, WriteFile, GenerationFails,
       MarkFails, EnterPhase
  <2>5. /\ phase'[w] = "failed" => status' = "failed"
        /\ status' \in {"running", "failed", status}
    BY <1>0, <1>4, <2>3 DEF Generate, LoadReport, MarkRunning, OpenFile, WriteFile,
       GenerationFails, EnterPhase
  <2>6. ~raced => owner[report] = w /\ state[report] = "leased"
    BY <2>3 DEF VerdictInv, LeaseInv
  <2>. QED
    BY <2>1, <2>2, <2>3, <2>4, <2>5, <2>6 DEF VerdictInv, Unsettled, row
<1>5. ASSUME NEW w \in Workers, ReleaseReport(w) PROVE HeldInv' /\ VerdictInv'
  <2>1. PICK s \in {"succeeded", "failed_terminal"} : ReleaseAndCommit(w, s)
    BY <1>5 DEF ReleaseReport, Verdict
  <2>2. msg[w].job = report /\ owner[report] = w /\ pc[w] = "executing"
    BY <1>0, <2>1, AllJobs DEF ReleaseAndCommit
  <2>3. /\ state'[report] = s /\ owner'[report] = NoWorker /\ ~lapsed'[report] /\ rows' = rows
    BY <1>0, <2>1, <2>2 DEF ReleaseAndCommit, reclaim
  <2>4. phase' = [phase EXCEPT ![w] = "none"] /\ UNCHANGED raced
        /\ phase[w] \in {"written", "noop", "failed"}
        /\ status' = IF phase[w] = "written" THEN "success" ELSE status
    BY <1>5 DEF ReleaseReport, EnterPhase, AtRelease
  <2>5. ~raced => status' \in {"success", "failed"}
    BY <2>2, <2>4 DEF VerdictInv, UnracedInv, StatusInv
  <2>6. ~raced => \A v \in Workers : ~Unsettled(v)'
    BY <1>0, <2>2, <2>4 DEF VerdictInv, Unsettled
  <2>. QED
    BY <2>3, <2>4, <2>5, <2>6 DEF HeldInv, VerdictInv
<1>6. ASSUME NEW w \in Workers, AbortReport(w) \/ StopReport(w) PROVE HeldInv' /\ VerdictInv'
  <2>1. UNCHANGED <<status, raced>> /\ phase' = [phase EXCEPT ![w] = "none"]
    BY <1>6 DEF AbortReport, StopReport, EnterPhase
  <2>. QED
    BY <1>0, <1>6, <2>1, HeldStop DEF VerdictInv, Unsettled
<1>7. CASE ReplayReport
  <2>1. CASE UNCHANGED <<row, raced>>
    BY <1>1, <1>7, <2>1 DEF ReplayReport
  <2>2. CASE ResetJob /\ raced' = (raced \/ InHand)
    <3>1. state'[report] = "pending" /\ owner'[report] = NoWorker /\ ~lapsed'[report]
      BY <1>0, <2>2 DEF ResetJob, WriteRow
    <3>2. UNCHANGED <<pc, valid, rows, phase, status>>
      BY <1>7 DEF ReplayReport, worker, reclaim
    <3>. QED
      BY <2>2, <3>1, <3>2 DEF HeldInv, VerdictInv, InHand, Unsettled
  <2>. QED
    BY <1>7, <2>1, <2>2 DEF ReplayReport
<1>8. CASE Prune
  BY <1>1, <1>8, QueueUntouched DEF Prune, PruneFind, PruneUnlink, PruneRow, PruneStops,
     reportVars, vars
<1>9. CASE Carry /\ UNCHANGED <<reportVars, disk>>
  BY <1>9, HeldCarry DEF reportVars, VerdictInv, Unsettled
<1>10. ASSUME NEW c \in Clients, RequestReport(c) PROVE HeldInv' /\ VerdictInv'
  BY <1>1, <1>10 DEF RequestReport, vars
<1>11. CASE UNCHANGED allVars
  BY <1>1, <1>11 DEF allVars, reportVars, vars
<1>. QED
  BY <1>2, <1>3, <1>4, <1>5, <1>6, <1>7, <1>8, <1>9, <1>10, <1>11 DEF ReportNext

(***************************************************************************)
(* If no worker errs or dies at work and heartbeats hold, what the API     *)
(* will not enqueue again has a job that is not settled (InFlightHasJob),  *)
(* though ticks fail and messages are lost, until a reset hits a job in    *)
(* hand.  Reports_stuck shows it violated when a worker may fail.          *)
(***************************************************************************)
THEOREM InFlight == HeartbeatsHold /\ WorkersFinish => (ReportSpec => []InFlightHasJob)
<1>. SUFFICES ASSUME HeartbeatsHold, WorkersFinish PROVE ReportSpec => []InFlightHasJob
  OBVIOUS
<1>1. ReportInit => LeaseInv /\ HeldInv /\ VerdictInv
  BY InitLease, ReportAssumption, ConstantsAssumption
     DEF ReportInit, Init, HeldInv, VerdictInv, Unsettled
<1>2. ReportTypeOK /\ ReportTypeOK' /\ LeaseInv /\ UnracedInv /\ HeldInv /\ VerdictInv
        /\ [ReportNext]_allVars => HeldInv' /\ VerdictInv'
  BY HeldStep
<1>3. VerdictInv => InFlightHasJob
  BY DEF VerdictInv, InFlightHasJob
<1>. QED
  BY UnracedAlways, ReportLease, <1>1, <1>2, <1>3, PTL DEF ReportSpec

=============================================================================
