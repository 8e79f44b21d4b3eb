-------------------------------- MODULE Images --------------------------------
(***************************************************************************)
(* One image pushed by a trailer: its row in panoptic_images, its file,    *)
(* its two points in Qdrant, the three jobs that caption and embed it, and *)
(* the operators' scripts that run beside them.                            *)
(*   src/services/trailer_webhook/app.py               receive_image       *)
(*   src/services/panoptic_image_caption_worker/       caption, chain      *)
(*   src/services/panoptic_caption_embed_worker/       text vector         *)
(*   src/services/panoptic_image_embed_worker/         pixel vector        *)
(*   src/scripts/  reembed_captions, reembed_images, dlq_replay,           *)
(*                 prune_images                                            *)
(*                                                                         *)
(* Of the queue there is what JobLifecycle promises, which LeaseQueue      *)
(* implements: a pending row is claimed, and a row whose lease ends is     *)
(* offered again while attempts are left.  The holder of a lost lease may  *)
(* go on for a while.  A worker's transaction is visible at its release,   *)
(* except for what it writes to Qdrant.                                    *)
(***************************************************************************)
EXTENDS Naturals

CONSTANTS
  caption, captionEmbed, imageEmbed, \* the jobs of the image
  Workers,
  NoWorker,    \* lease_owner IS NULL
  NoJob,       \* a worker that waits for a message
  MaxAttempts, \* panoptic_jobs.max_attempts
  MaxOps       \* bound: scripts that reset rows are run this often

Embeds == {captionEmbed, imageEmbed}
Jobs   == {caption} \cup Embeds

ASSUME ImagesAssumption ==
  /\ caption \notin Embeds
  /\ captionEmbed # imageEmbed
  /\ NoWorker \notin Workers
  /\ NoJob \notin Jobs
  /\ MaxAttempts \in Nat \ {0}
  /\ MaxOps \in Nat

VARIABLES
  state, owner, attempts, \* the job rows
  captionStatus,          \* caption_status, "none" while there is no image row
  embedded,               \* jobs whose embedding status column is 'success'
  file,                   \* the JPEG is on disk
  points,                 \* jobs whose vector is in its Qdrant collection
  task, phase,            \* workers: job at hand, and how far its executor is
  pruning,                \* how far prune_images is with this image
  ops,                    \* scripts run so far
  reembedding,            \* reembed_captions has reset the row and not the job, and is to commit
  unbacked                \* history: statuses reset behind the back of a job that was done

rows    == <<state, owner, attempts>>
image   == <<captionStatus, embedded, file, points>>
workers == <<task, phase>>
scripts == <<pruning, ops, reembedding, unbacked>>
vars    == <<rows, image, workers, scripts>>

JobState == {"absent", "pending", "leased", "retry_wait", "succeeded", "failed_terminal"}
Phase    == {"idle", "claimed", "refused", "noop", "working", "stored"}

TypeOK ==
  /\ state \in [Jobs -> JobState]
  /\ owner \in [Jobs -> Workers \cup {NoWorker}]
  /\ attempts \in [Jobs -> Nat]
  /\ captionStatus \in {"none", "pending", "success", "failed"}
  /\ embedded \in SUBSET Embeds
  /\ file \in BOOLEAN
  /\ points \in SUBSET Embeds
  /\ task \in [Workers -> Jobs \cup {NoJob}]
  /\ phase \in [Workers -> Phase]
  /\ \A w \in Workers :
       /\ phase[w] # "idle" => task[w] \in Jobs
       /\ phase[w] = "stored" => task[w] \in Embeds
  /\ pruning \in {"no", "points", "row", "done"}
  /\ ops \in Nat
  /\ reembedding \in BOOLEAN
  /\ unbacked \in SUBSET Embeds

Init ==
  /\ state = [j \in Jobs |-> "absent"]
  /\ owner = [j \in Jobs |-> NoWorker]
  /\ attempts = [j \in Jobs |-> 0]
  /\ captionStatus = "none"
  /\ embedded = {}
  /\ file = FALSE
  /\ points = {}
  /\ task = [w \in Workers |-> NoJob]
  /\ phase = [w \in Workers |-> "idle"]
  /\ pruning = "no"
  /\ ops = 0
  /\ reembedding = FALSE
  /\ unbacked = {}

-----------------------------------------------------------------------------
(* receive_image *)

\* Row, file and caption job in one commit; a duplicate changes nothing.
\* Bound: no trailer pushes an image again once its retention has ended.
ReceiveImage ==
  /\ captionStatus = "none"
  /\ pruning = "no"
  /\ captionStatus' = "pending"
  /\ file' = TRUE
  /\ state' = [state EXCEPT ![caption] = IF @ = "absent" THEN "pending" ELSE @]
  /\ UNCHANGED <<owner, attempts, embedded, points, workers, scripts>>

\* The write or the transaction fails: no row, and maybe a file.
ReceiveFails ==
  /\ captionStatus = "none"
  /\ pruning = "no"
  /\ file' = TRUE
  /\ UNCHANGED <<rows, captionStatus, embedded, points, workers, scripts>>

-----------------------------------------------------------------------------
(* Workers: claim, execute, release *)

ToPhase(w, p) == phase' = [phase EXCEPT ![w] = p]

ToIdle(w) ==
  /\ ToPhase(w, "idle")
  /\ task' = [task EXCEPT ![w] = NoJob]

Claim(w, j) ==
  /\ phase[w] = "idle"
  /\ state[j] = "pending"
  /\ state' = [state EXCEPT ![j] = "leased"]
  /\ owner' = [owner EXCEPT ![j] = w]
  /\ attempts' = [attempts EXCEPT ![j] = @ + 1]
  /\ task' = [task EXCEPT ![w] = j]
  /\ ToPhase(w, "claimed")
  /\ UNCHANGED <<image, scripts>>

\* "already captioned / already embedded": a no-op.
Done == embedded \cup {j \in {caption} : captionStatus = "success"}

\* What an executor asks for beside the row: a caption, or the file.
Possible == {j \in Jobs : IF j = captionEmbed THEN captionStatus = "success" ELSE file}

\* The SELECT the executor starts with, which reads a locked row as it was.  An
\* empty caption is refused too: whether a caption has text is not followed.
Load(w) ==
  /\ phase[w] = "claimed"
  /\ \/ captionStatus # "none" /\ task[w] \in Done /\ ToPhase(w, "noop")
     \/ captionStatus # "none" /\ task[w] \in Possible \ Done /\ ToPhase(w, "working")
     \/ /\ captionStatus = "none" \/ task[w] \notin Done
        /\ captionStatus = "none" \/ task[w] \notin Possible \ {captionEmbed}
        /\ ToPhase(w, "refused")
  /\ UNCHANGED <<rows, image, task, scripts>>

\* Mutant: the status is to be written first, the vector afterwards.
StoreLater(w) ==
  /\ phase[w] = "working"
  /\ task[w] \in Embeds
  /\ ToPhase(w, "stored")
  /\ UNCHANGED <<rows, image, task, scripts>>

\* The upsert of the vector, which asks for no lease and is never rolled back.
StorePoint(w) ==
  /\ phase[w] = "working"
  /\ task[w] \in Embeds
  /\ points' = points \cup {task[w]}
  /\ ToPhase(w, "stored")
  /\ UNCHANGED <<rows, captionStatus, embedded, file, task, scripts>>

\* A transaction that has to write the image row waits for the script that holds it.
RowFree == ~ reembedding

\* release_job matches the row and the transaction commits.
Release(w, s) ==
  /\ owner[task[w]] = w
  /\ state' = [state EXCEPT ![task[w]] = s]
  /\ owner' = [owner EXCEPT ![task[w]] = NoWorker]
  /\ ToIdle(w)
  /\ UNCHANGED <<attempts, file, points, scripts>>

\* Mutant: the embedding jobs are left to a later transaction.
CommitCaptionOnly(w) ==
  /\ RowFree
  /\ phase[w] = "working"
  /\ task[w] = caption
  /\ Release(w, "succeeded")
  /\ captionStatus' = IF captionStatus = "none" THEN "none" ELSE "success"
  /\ UNCHANGED embedded

\* Caption, both embedding jobs and the job's own state in one commit.  The
\* UPDATE of a row that was pruned meanwhile changes nothing.
CommitCaption(w) ==
  /\ RowFree
  /\ phase[w] = "working"
  /\ task[w] = caption
  /\ owner[caption] = w
  /\ state' = [j \in Jobs |-> IF j = caption THEN "succeeded"
                              ELSE IF state[j] = "absent" THEN "pending"
                              ELSE state[j]]
  /\ owner' = [owner EXCEPT ![caption] = NoWorker]
  /\ captionStatus' = IF captionStatus = "none" THEN "none" ELSE "success"
  /\ ToIdle(w)
  /\ UNCHANGED <<attempts, embedded, file, points, scripts>>

\* Mutant: the state of the job is written for that of the caption.
CommitJobState(w) ==
  /\ RowFree
  /\ phase[w] = "working"
  /\ task[w] = caption
  /\ Release(w, "failed_terminal")
  /\ captionStatus' = "failed_terminal"
  /\ UNCHANGED embedded

\* The model's answer is empty.
CommitNoCaption(w) ==
  /\ RowFree
  /\ phase[w] = "working"
  /\ task[w] = caption
  /\ Release(w, "failed_terminal")
  /\ captionStatus' = IF captionStatus = "none" THEN "none" ELSE "failed"
  /\ UNCHANGED embedded

CommitEmbedding(w) ==
  /\ RowFree
  /\ phase[w] = "stored"
  /\ Release(w, "succeeded")
  /\ embedded' = IF captionStatus = "none" THEN embedded ELSE embedded \cup {task[w]}
  /\ UNCHANGED captionStatus

CommitNothing(w) ==
  /\ \/ phase[w] = "noop" /\ Release(w, "succeeded")
     \/ phase[w] = "refused" /\ Release(w, "failed_terminal")
  /\ UNCHANGED <<captionStatus, embedded>>

\* An exception of the executor, be it after Qdrant has taken the vector.
CommitException(w) ==
  /\ phase[w] \in {"working", "stored"}
  /\ Release(w, IF attempts[task[w]] >= MaxAttempts THEN "failed_terminal" ELSE "retry_wait")
  /\ UNCHANGED <<captionStatus, embedded>>

\* The worker dies, errs, or finds its lease gone: its transaction is rolled back.
RollBack(w) ==
  /\ phase[w] # "idle"
  /\ ToIdle(w)
  /\ UNCHANGED <<rows, image, scripts>>

\* The last of these: release_job matches no row.
Abandon(w) ==
  /\ phase[w] # "idle" /\ owner[task[w]] # w
  /\ RollBack(w)

\* Mutant: retry_wait missing in the SELECT.
ReclaimLeases(j) ==
  /\ state[j] = "leased"
  /\ state' = [state EXCEPT ![j] =
       IF attempts[j] < MaxAttempts THEN "pending" ELSE "failed_terminal"]
  /\ owner' = [owner EXCEPT ![j] = NoWorker]
  /\ UNCHANGED <<attempts, image, workers, scripts>>

\* The lease of a dead or cut-off worker, or the delay of a retry, has ended.
Reclaim(j) ==
  /\ state[j] \in {"leased", "retry_wait"}
  /\ state' = [state EXCEPT ![j] =
       IF attempts[j] < MaxAttempts THEN "pending" ELSE "failed_terminal"]
  /\ owner' = [owner EXCEPT ![j] = NoWorker]
  /\ UNCHANGED <<attempts, image, workers, scripts>>

-----------------------------------------------------------------------------
(* Scripts *)

RunScript == ops < MaxOps /\ ops' = ops + 1

\* UPDATE panoptic_jobs SET state = 'pending', attempt_count = 0, ...
ResetJob(j) ==
  /\ state[j] # "absent"
  /\ state' = [state EXCEPT ![j] = "pending"]
  /\ owner' = [owner EXCEPT ![j] = NoWorker]
  /\ attempts' = [attempts EXCEPT ![j] = 0]
  /\ unbacked' = unbacked \ {j}

\* dlq_replay --job-id, whatever the state of the job.
ReplayJob(j) ==
  /\ RunScript
  /\ ResetJob(j)
  /\ UNCHANGED <<image, workers, pruning, reembedding>>

\* The job has succeeded, or will: its worker has found 'success' in the row.
Unbacked(e) ==
  \/ state[e] = "succeeded"
  \/ \E w \in Workers : owner[e] = w /\ phase[w] = "noop"

\* A status is reset, and nothing is done about its job.
ResetStatus(e) ==
  /\ embedded' = embedded \ {e}
  /\ unbacked' = IF Unbacked(e) THEN unbacked \cup {e} ELSE unbacked

\* Mutant: reembed_captions resets the image rows and forgets the jobs.
ReembedCaptionsOnly ==
  /\ RunScript
  /\ RowFree
  /\ embedded' = IF captionStatus = "success" THEN embedded \ {captionEmbed} ELSE embedded
  /\ UNCHANGED <<rows, captionStatus, file, points, workers, pruning, reembedding, unbacked>>

\* reembed_captions: image row and job in one transaction, both locked till its
\* end.  (A commit between its two UPDATEs leaves what a ReplayJob leaves: an
\* embedded row, a job reset.)
ReembedCaptions ==
  /\ RunScript
  /\ RowFree
  /\ state[captionEmbed] # "pending"
  /\ embedded' = IF captionStatus = "success" THEN embedded \ {captionEmbed} ELSE embedded
  /\ ResetJob(captionEmbed)
  /\ UNCHANGED <<captionStatus, file, points, workers, pruning, reembedding>>

\* A replay has left the job pending: the second UPDATE passes it over and locks
\* nothing of it, while the first has reset the row, which nobody sees yet.
ReembedPassesOver ==
  /\ RunScript
  /\ RowFree
  /\ captionStatus = "success"
  /\ captionEmbed \in embedded
  /\ state[captionEmbed] = "pending"
  /\ reembedding' = TRUE
  /\ UNCHANGED <<rows, image, workers, pruning, unbacked>>

\* Its commit, whatever has become of the job since.
ReembedCommits ==
  /\ reembedding
  /\ reembedding' = FALSE
  /\ ResetStatus(captionEmbed)
  /\ UNCHANGED <<rows, captionStatus, file, points, workers, pruning, ops>>

\* The script dies before it.
ReembedRollsBack ==
  /\ reembedding
  /\ reembedding' = FALSE
  /\ UNCHANGED <<rows, image, workers, pruning, ops, unbacked>>

\* reembed_images --force: the row is reset, the job inserted if there is none.
\* One that exists gets a message more, which no worker can claim unless the
\* row is pending anyway; without --force that is all there is to the script.
ForceReembedImages ==
  /\ RunScript
  /\ RowFree
  /\ captionStatus = "success"
  /\ ResetStatus(imageEmbed)
  /\ state' = [state EXCEPT ![imageEmbed] = IF @ = "absent" THEN "pending" ELSE @]
  /\ UNCHANGED <<owner, attempts, captionStatus, file, points, workers, pruning, reembedding>>

\* prune_images: each delete in Qdrant may fail, which nobody looks at.
PrunePoints ==
  /\ captionStatus # "none"
  /\ pruning \in {"no", "points"}
  /\ pruning' = "points"
  /\ \E failed \in SUBSET Embeds : points' = points \cap failed
  /\ UNCHANGED <<rows, captionStatus, embedded, file, workers, ops, reembedding, unbacked>>

\* Mutant: the file goes before the row.
PruneFileFirst ==
  /\ pruning = "points"
  /\ file' = FALSE
  /\ pruning' = "row"
  /\ UNCHANGED <<rows, captionStatus, embedded, points, workers, ops, reembedding, unbacked>>

\* Then the row; a failure leaves it to the next run.
PruneRow ==
  /\ RowFree
  /\ pruning = "points"
  /\ pruning' = "row"
  /\ captionStatus' = "none"
  /\ embedded' = {}
  /\ UNCHANGED <<rows, file, points, workers, ops, reembedding, unbacked>>

PruneFile ==
  /\ pruning = "row"
  /\ pruning' = "done"
  /\ file' = FALSE
  /\ UNCHANGED <<rows, captionStatus, embedded, points, workers, ops, reembedding, unbacked>>

-----------------------------------------------------------------------------
(* Specification *)

Commit(w) ==
  \/ CommitCaption(w) \/ CommitNoCaption(w) \/ CommitEmbedding(w) \/ CommitNothing(w)

\* What a worker does when nothing fails.
Work(w) ==
  \/ \E j \in Jobs : Claim(w, j)
  \/ Load(w) \/ StorePoint(w) \/ Commit(w) \/ Abandon(w)

EndReembed == ReembedCommits \/ ReembedRollsBack

Next ==
  \/ ReceiveImage \/ ReceiveFails
  \/ \E w \in Workers : Work(w) \/ CommitException(w) \/ RollBack(w)
  \/ \E j \in Jobs : Reclaim(j) \/ ReplayJob(j)
  \/ ReembedCaptions \/ ReembedPassesOver \/ EndReembed \/ ForceReembedImages
  \/ PrunePoints \/ PruneRow \/ PruneFile

Spec == Init /\ [][Next]_vars

\* Workers and reclaimer run, whether anything fails or not; a script is run or
\* not, and its transaction ends.
FairSpec ==
  /\ Spec
  /\ \A w \in Workers : WF_vars(Work(w))
  /\ \A j \in Jobs : WF_vars(Reclaim(j))
  /\ WF_vars(EndReembed)

-----------------------------------------------------------------------------
(* Properties *)

(***************************************************************************)
(* A status column that says 'success' has its vector in Qdrant ("Qdrant   *)
(* upsert before Postgres UPDATE", image_embed executor), whichever        *)
(* attempt wrote either and whatever was rolled back; until the image is   *)
(* being pruned, which takes the points first.                             *)
(***************************************************************************)
EmbeddedHasPoint == pruning = "no" => embedded \subseteq points

(***************************************************************************)
(* A caption never stays without the jobs that embed it, nor those without *)
(* it.  A caption job that finds the caption written chains nothing, so    *)
(* the first half must hold before its first attempt commits and after     *)
(* every replay; and embedding jobs that found no caption would go to the  *)
(* DLQ, so no late or replayed caption job may take the caption back.      *)
(***************************************************************************)
CaptionChains ==
  LET chained == {e \in Embeds : state[e] # "absent"}
  IN  /\ captionStatus = "success" => chained = Embeds
      /\ captionStatus \notin {"none", "success"} => chained = {}

(***************************************************************************)
(* A settled embedding job has done its work: a row that says 'pending'    *)
(* has somebody to embed it, across replays, re-embedding and late         *)
(* workers.  Not so for a status reset behind the back of a job that is    *)
(* done, until that job is replayed:                                       *)
(*   - by reembed_images --force, which leaves the job as it is            *)
(*     ("re-enqueue it on the stream anyway so a worker picks it up" holds *)
(*     for no job that has succeeded);                                     *)
(*   - by reembed_captions (reembed_captions.py:55-77), when a replay has  *)
(*     left the job pending and a worker finds the old 'success' in the    *)
(*     row between the UPDATE that passes the job over and the commit.     *)
(***************************************************************************)
SucceededIsEmbedded ==
  \A e \in Embeds \ unbacked :
    captionStatus = "success" /\ state[e] = "succeeded" => e \in embedded

(***************************************************************************)
(* An image that search and workers can find has its file on disk: the     *)
(* file is written before the row is committed and removed after it.       *)
(***************************************************************************)
RowHasFile == captionStatus # "none" => file

(***************************************************************************)
(* A captioned image is embedded both ways in the end, unless a job is     *)
(* dead-lettered, the image pruned, or a status reset behind the back of   *)
(* its job, in one of the two ways named at SucceededIsEmbedded.           *)
(***************************************************************************)
CaptionedIsEmbedded ==
  captionStatus = "success" ~>
    \/ embedded = Embeds
    \/ \E e \in Embeds : state[e] = "failed_terminal" \/ e \in unbacked
    \/ captionStatus = "none"

-----------------------------------------------------------------------------
(* Inductive strengthenings of the invariants above *)

\* A row with an owner is leased, and before the image is received there is no row.
LeaseInv ==
  /\ \A j \in Jobs : owner[j] # NoWorker => state[j] = "leased"
  /\ captionStatus = "none" /\ pruning = "no" => \A j \in Jobs : state[j] = "absent"

\* The row goes before pruning is over.
PruneInv == pruning \in {"row", "done"} => captionStatus = "none"

\* Once the vector is stored, it stays until the image is pruned.
StoredInv ==
  \A w \in Workers : phase[w] = "stored" /\ pruning = "no" => task[w] \in points

\* A worker that holds the lease and has SELECTed knows what there is to do.
KnownInv ==
  \A w \in Workers : phase[w] # "idle" /\ owner[task[w]] = w /\ captionStatus # "none" =>
    /\ phase[w] = "working" /\ task[w] = caption => captionStatus # "success"
    /\ phase[w] = "noop" /\ task[w] \in Embeds \ unbacked => task[w] \in embedded

\* A claim finds attempts left, and only a caption that is chained is a no-op.
ClaimInv ==
  /\ \A j \in Jobs : state[j] \in {"absent", "pending"} => attempts[j] < MaxAttempts
  /\ \A w \in Workers : phase[w] = "noop" /\ task[w] = caption =>
       \A e \in Embeds : state[e] # "absent"

-----------------------------------------------------------------------------
(* What the pipeline does to the rows of the queue *)

Queue == INSTANCE JobLifecycle WITH
  Downstream <- [j \in Jobs |-> IF j = caption THEN Embeds ELSE {}]

\* What a script leaves of a job: pending, with all its attempts.
Restarted(j) ==
  /\ state[j] # "absent"
  /\ state' = [state EXCEPT ![j] = "pending"]
  /\ attempts' = [attempts EXCEPT ![j] = 0]

(***************************************************************************)
(* The pipeline uses the queue as the queue is specified: beside scripts,  *)
(* which restart a job in any state, its rows go through the lifecycle of  *)
(* JobLifecycle, with the two embedding jobs downstream of the caption.  A *)
(* no-op of the caption worker is a success too: what it would have brought*)
(* along must be there already.                                            *)
(***************************************************************************)
RowsFollowQueue ==
  /\ Queue!LifecycleInit
  /\ [][Queue!LifecycleNext \/ (ops' = ops + 1 /\ \E j \in Jobs : Restarted(j))]_Queue!rowVars

=============================================================================
