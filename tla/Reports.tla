------------------------------- MODULE Reports -------------------------------
(***************************************************************************)
(* The life of one report (a row of panoptic_reports) between the API that *)
(* is asked for it, the queue that carries its job and the worker that     *)
(* generates it:                                                           *)
(*   src/services/search_api/reports.py               _enqueue_report      *)
(*   src/services/panoptic_report_generator/executor.py                    *)
(*                                    run_report_generate_job, _mark_status *)
(*   src/services/panoptic_report_generator/worker.py  _process_message    *)
(*   src/scripts/dlq_replay.py, prune_reports.py       the operator's      *)
(*                                                                         *)
(* The queue is LeaseQueue with the one job of the report, which is tried  *)
(* once.  Its Submit is replaced by the API's upsert, which resets the job *)
(* row whatever it holds, and so does a replay of the dead letter; claim   *)
(* and release carry the report along.  The status is written in           *)
(* transactions of its own, without a look at the lease, but for           *)
(* 'success', which is committed with the release; the HTML file, whose    *)
(* path only depends on trailer, kind and window, is in no transaction.    *)
(***************************************************************************)
EXTENDS LeaseQueue

CONSTANTS
  report,     \* the report's job
  Clients,    \* requests the API may be handling at the same time
  MaxRequests,\* bound: messages sent for the report
  Scripts     \* which scripts the operator may run, one of each at a time

ASSUME ReportAssumption ==
  /\ Jobs = {report}
  /\ MaxAttempts = 1
  /\ Downstream[report] = {}
  /\ MaxRequests \in Nat
  /\ Scripts \subseteq {"dlq_replay", "prune_reports"}

VARIABLES
  status, \* status column, "none" while there is no row
  stored, \* storage_path IS NOT NULL
  asking, \* the status each request has read and may write over
  phase,  \* how far the executor of each worker is
  file,   \* the HTML file at the report's path
  pruning,\* how far prune_reports is with the report
  raced   \* history: a reset hit a job in hand unseen, or a status that had moved on

reportVars == <<status, stored, asking, phase, raced>>
disk       == <<file, pruning>>
allVars    == <<vars, reportVars, disk>>

Status == {"none", "pending", "running", "success", "failed"}
Phase  == {"none", "loading", "marking", "generating", "writing", "written", "noop", "failed"}
File   == {"none", "torn", "whole", "deleted"}

\* Mutant: _TERMINAL_OR_IN_FLIGHT without 'success'; without 'running'.
ReusableInFlight  == {"pending", "running"}
ReusableUnstarted == {"pending", "success"}

\* _TERMINAL_OR_IN_FLIGHT: the report is reused, nothing is written.
Reusable == {"pending", "running", "success"}

ReportTypeOK ==
  /\ TypeOK
  /\ status \in Status
  /\ stored \in BOOLEAN
  /\ file \in File
  /\ pruning \in {"idle", "found", "unlinked"}
  /\ raced \in BOOLEAN
  /\ asking \in [Clients -> (Status \ Reusable) \cup {"no"}]
  /\ phase \in [Workers -> Phase]
  /\ \A w \in Workers : phase[w] # "none" <=> pc[w] = "executing"

ReportInit ==
  /\ Init
  /\ status = "none"
  /\ asking = [c \in Clients |-> "no"]
  /\ phase = [w \in Workers |-> "none"]
  /\ stored = FALSE
  /\ file = "none"
  /\ pruning = "idle"
  /\ raced = FALSE

-----------------------------------------------------------------------------
(* Resets of the job *)

\* The executor of w may yet write the status or the file.
Unsettled(w) == phase[w] \in {"loading", "marking", "generating", "writing", "written"}

InHand == \E w \in Workers : Unsettled(w)

\* A replayed job whose report still says 'failed'.
HiddenInHand == InHand /\ status \notin {"pending", "running"}

\* state = 'pending', attempt_count = 0, whatever the row holds.
ResetJob ==
  /\ WriteRow(report, "pending")
  /\ attempts' = [attempts EXCEPT ![report] = 0]

-----------------------------------------------------------------------------
(* The API: _enqueue_report *)

\* SELECT status.
RequestReport(c) ==
  /\ asking[c] = "no"
  /\ status \notin Reusable
  /\ sent[report] < MaxRequests
  /\ asking' = [asking EXCEPT ![c] = status]
  /\ UNCHANGED <<vars, status, stored, phase, disk, raced>>

\* Both upserts in one commit; the XADD follows as Publish or PublishFails.
WriteReport(c) ==
  /\ asking[c] # "no"
  /\ asking' = [asking EXCEPT ![c] = "no"]
  /\ status' = "pending"
  /\ stored' = FALSE
  /\ ResetJob
  /\ outbox' = outbox \cup {report}
  /\ raced' = (raced \/ status # asking[c] \/ HiddenInHand)
  /\ UNCHANGED <<redis, worker, reclaim, phase, disk>>

-----------------------------------------------------------------------------
(* The operator *)

\* dlq_replay of the report's job, with or without --no-reset; the XADD follows.
\* What --ack deletes is not looked at.
ReplayReport ==
  /\ "dlq_replay" \in Scripts
  /\ state[report] # "absent"
  /\ sent[report] < MaxRequests
  /\ outbox' = outbox \cup {report}
  /\ \/ ResetJob /\ raced' = (raced \/ InHand)
     \/ UNCHANGED <<row, raced>>
  /\ UNCHANGED <<redis, worker, reclaim, status, stored, asking, phase, disk>>

\* SELECT ... status = 'success' AND storage_path IS NOT NULL, of a window that
\* is old enough.
PruneFind ==
  /\ "prune_reports" \in Scripts
  /\ pruning = "idle"
  /\ status = "success" /\ stored
  /\ pruning' = "found"
  /\ UNCHANGED <<vars, reportVars, file>>

PruneUnlink ==
  /\ pruning = "found"
  /\ file' = "deleted"
  /\ pruning' = "unlinked"
  /\ UNCHANGED <<vars, reportVars>>

\* SET storage_path = NULL; the status stays.
PruneRow ==
  /\ pruning = "unlinked"
  /\ stored' = FALSE
  /\ pruning' = "idle"
  /\ UNCHANGED <<vars, status, asking, phase, raced, file>>

\* unlink fails, or the script is stopped: the next run finds the row again.
PruneStops ==
  /\ "abandon" \in Faults
  /\ pruning # "idle"
  /\ pruning' = "idle"
  /\ UNCHANGED <<vars, reportVars, file>>

Prune == PruneFind \/ PruneUnlink \/ PruneRow \/ PruneStops

-----------------------------------------------------------------------------
(* The worker: run_report_generate_job between claim and release *)

EnterPhase(w, p) == phase' = [phase EXCEPT ![w] = p]

StartReport(w) ==
  /\ ClaimJob(w)
  /\ EnterPhase(w, "loading")
  /\ UNCHANGED <<status, stored, asking, raced, disk>>

\* A report that is there already is left as it is.
LoadReport(w) ==
  /\ phase[w] = "loading"
  /\ EnterPhase(w, IF status = "success" THEN "noop" ELSE "marking")
  /\ UNCHANGED <<vars, status, stored, asking, raced, disk>>

\* _mark_status commits whatever became of the lease.
MarkRunning(w) ==
  /\ phase[w] = "marking"
  /\ status' = "running"
  /\ EnterPhase(w, "generating")
  /\ UNCHANGED <<vars, stored, asking, raced, disk>>

\* open(storage_path, "w"), write, close.
OpenFile(w) ==
  /\ phase[w] = "generating"
  /\ file' = "torn"
  /\ EnterPhase(w, "writing")
  /\ UNCHANGED <<vars, status, stored, asking, raced, pruning>>

WriteFile(w) ==
  /\ phase[w] = "writing"
  /\ file' = IF file = "torn" THEN "whole" ELSE file
  /\ EnterPhase(w, "written")
  /\ UNCHANGED <<vars, status, stored, asking, raced, pruning>>

\* Mutant: the state of the job is written for that of the report.
MarkFailedTerminal(w) ==
  /\ phase[w] \in {"generating", "writing", "written"}
  /\ status' = "failed_terminal"
  /\ EnterPhase(w, "failed")
  /\ UNCHANGED <<vars, stored, asking, raced, disk>>

GenerationFails(w) ==
  /\ phase[w] \in {"generating", "writing", "written"}
  /\ status' = "failed"
  /\ EnterPhase(w, "failed")
  /\ UNCHANGED <<vars, stored, asking, raced, disk>>

\* The exception of _mark_status itself: the job will fail, the status stays.
MarkFails(w) ==
  /\ "abandon" \in Faults
  /\ phase[w] \in {"marking", "generating", "writing", "written"}
  /\ EnterPhase(w, "failed")
  /\ UNCHANGED <<vars, status, stored, asking, raced, disk>>

\* The executor of w on its own, its transaction open.
Generate(w) ==
  \/ LoadReport(w) \/ MarkRunning(w) \/ OpenFile(w) \/ WriteFile(w)
  \/ GenerationFails(w) \/ MarkFails(w)

AtRelease(w) == phase[w] \in {"written", "noop", "failed"}

Verdict(w) == IF phase[w] = "failed" THEN "failed_terminal" ELSE "succeeded"

\* Mutant: the success is left to a later transaction.
ReleaseUnmarked(w) ==
  /\ AtRelease(w)
  /\ ReleaseAndCommit(w, Verdict(w))
  /\ EnterPhase(w, "none")
  /\ UNCHANGED <<status, stored, asking, raced, disk>>

\* UPDATE status = 'success', storage_path = ... is part of the transaction that
\* releases the job.
ReleaseReport(w) ==
  /\ AtRelease(w)
  /\ ReleaseAndCommit(w, Verdict(w))
  /\ status' = IF phase[w] = "written" THEN "success" ELSE status
  /\ stored' = (phase[w] = "written" \/ stored)
  /\ EnterPhase(w, "none")
  /\ UNCHANGED <<asking, raced, disk>>

\* Rolled back, the UPDATE included.
AbortReport(w) ==
  /\ AtRelease(w)
  /\ AbortStolen(w)
  /\ EnterPhase(w, "none")
  /\ UNCHANGED <<status, stored, asking, raced, disk>>

\* The worker dies or errs: what _mark_status committed stays.
StopReport(w) ==
  /\ Fail(w)
  /\ EnterPhase(w, "none")
  /\ UNCHANGED <<status, stored, asking, raced, disk>>

-----------------------------------------------------------------------------
(* Specification *)

\* What the queue does beside: messages, leases, dead letters, reclaimers.
Carry ==
  \/ Publish(report) \/ PublishFails(report) \/ Expire(report) \/ LapseAtWork(report)
  \/ \E w \in Workers :
       \/ ConsumeNext(w) \/ ClaimRefused(w) \/ RenewLease(w) \/ AckMessage(w)
       \/ EnqueueDlq(w) \/ EnqueueDlqFails(w)
  \/ \E r \in Reclaimers : Tick(r) \/ TickFails(r)

ReportNext ==
  \/ \E c \in Clients : RequestReport(c) \/ WriteReport(c)
  \/ \E w \in Workers :
       StartReport(w) \/ Generate(w) \/ ReleaseReport(w) \/ AbortReport(w) \/ StopReport(w)
  \/ ReplayReport \/ Prune
  \/ Carry /\ UNCHANGED <<reportVars, disk>>

ReportSpec == ReportInit /\ [][ReportNext]_allVars

-----------------------------------------------------------------------------
(* Properties *)

(***************************************************************************)
(* At most one worker is at work on the file of a report.  No lease guards *)
(* the file: it takes max_attempts = 1, so that the reclaimer never offers *)
(* the job again, and resets that come after the worker has said 'failed'. *)
(* It holds until a reset hits a job in hand, which a replay may do, and a *)
(* request that writes over a status other than the one it has read.       *)
(***************************************************************************)
OneGenerator ==
  ~raced => \A v, w \in Workers : Unsettled(v) /\ Unsettled(w) => v = w

(***************************************************************************)
(* "'success' reuses the existing HTML" (reports.py): a report that was    *)
(* handed out stays, whatever late workers, replays and retention do.      *)
(***************************************************************************)
SuccessIsFinal == [][status = "success" /\ ~raced' => status' = "success"]_allVars

(***************************************************************************)
(* "lease release + this update land in the same transaction"              *)
(* (executor.py): a job that succeeded has its report, and the path in its *)
(* row leads to the whole file, until the retention has deleted it: nobody *)
(* opens the file of a report that is there, and it is never deleted under *)
(* a worker that writes it.                                                *)
(***************************************************************************)
SucceededHasReport ==
  ~raced =>
    /\ state[report] = "succeeded" => status = "success"
    /\ stored => status = "success" /\ file \in {"whole", "deleted"}

(***************************************************************************)
(* "'running'/'pending' means a worker is already on it or about to be"    *)
(* (reports.py): what the API refuses to enqueue again has a job that is   *)
(* not settled.                                                            *)
(***************************************************************************)
InFlightHasJob ==
  ~raced /\ status \in {"pending", "running"} => state[report] \in {"pending", "leased"}

-----------------------------------------------------------------------------
(* Inductive strengthenings of the invariants above *)

\* One worker at a time has a say about the status and the file, for a report
\* that is not there; what the path of one that is leads to stays.
StatusInv ==
  /\ \A v, w \in Workers : Unsettled(v) /\ Unsettled(w) => v = w
  /\ \A w \in Workers :
       /\ Unsettled(w) => state[report] # "pending"
       /\ Unsettled(w) /\ phase[w] # "loading" => status # "success"
       /\ phase[w] = "noop" => status = "success"
       /\ phase[w] = "writing" => file = "torn"
       /\ phase[w] = "written" => file = "whole"
  /\ state[report] = "succeeded" => status = "success"
  /\ stored => status = "success" /\ file \in {"whole", "deleted"}
  /\ pruning # "idle" => status = "success"

UnracedInv == ~raced => StatusInv

\* One attempt is all there is: nothing a reclaimer selects has one left.
SpentInv ==
  /\ state[report] \in {"leased", "retry_wait"} => attempts[report] >= 1
  /\ \A r \in Reclaimers : \A x \in rows[r] : x.attempts >= 1

\* Requests that come one by one find no job in hand.
UndisturbedInv ==
  /\ ~raced
  /\ \A w \in Workers : Unsettled(w) => status \in {"pending", "running"}
  /\ state[report] = "pending" => status = "pending"
  /\ \A c \in Clients : asking[c] # "no" => status = asking[c]

=============================================================================
