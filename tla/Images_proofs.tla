---------------------------- MODULE Images_proofs ----------------------------
(***************************************************************************)
(* Theorems about Images for any number of workers, attempts and scripts.  *)
(***************************************************************************)
EXTENDS Images, TLAPS

LEMMA TypeInit == Init => TypeOK
<1>. SUFFICES ASSUME Init PROVE TypeOK
  OBVIOUS
<1>1. state \in [Jobs -> JobState] /\ owner \in [Jobs -> Workers \cup {NoWorker}]
  BY DEF Init, JobState
<1>2. task \in [Workers -> Jobs \cup {NoJob}] /\ phase \in [Workers -> Phase]
  BY DEF Init, Phase
<1>3. \A w \in Workers : phase[w] = "idle"
  BY DEF Init
<1>. QED
  BY <1>1, <1>2, <1>3 DEF Init, TypeOK

LEMMA TypeStep == TypeOK /\ [Next]_vars => TypeOK'
<1>. SUFFICES ASSUME TypeOK, [Next]_vars PROVE TypeOK'
  OBVIOUS
<1>. USE DEF TypeOK, JobState, Phase, rows, image, workers, scripts, Jobs, ToPhase, ToIdle
<1>1. CASE ReceiveImage \/ ReceiveFails
  BY <1>1 DEF ReceiveImage, ReceiveFails
<1>2. ASSUME NEW w \in Workers, NEW j \in Jobs, Claim(w, j) PROVE TypeOK'
  BY <1>2 DEF Claim
<1>3. ASSUME NEW w \in Workers, Load(w) \/ StorePoint(w) \/ RollBack(w) PROVE TypeOK'
  BY <1>3 DEF Load, StorePoint, RollBack
<1>4. ASSUME NEW w \in Workers, Commit(w) \/ CommitException(w) PROVE TypeOK'
  <2>1. CASE CommitCaption(w)
    BY <2>1 DEF CommitCaption
  <2>2. CASE CommitNoCaption(w)
    BY <2>2 DEF CommitNoCaption, Release
  <2>3. CASE CommitEmbedding(w)
    BY <2>3 DEF CommitEmbedding, Release
  <2>4. CASE CommitNothing(w) \/ CommitException(w)
    BY <2>4 DEF CommitNothing, CommitException, Release
  <2>. QED
    BY <1>4, <2>1, <2>2, <2>3, <2>4 DEF Commit
<1>5. ASSUME NEW j \in Jobs, Reclaim(j) \/ ReplayJob(j) PROVE TypeOK'
  BY <1>5 DEF Reclaim, ReplayJob, ResetJob, RunScript
<1>6. CASE ReembedCaptions \/ ReembedPassesOver \/ EndReembed \/ ForceReembedImages
  <2>1. CASE ReembedCaptions
    BY <2>1 DEF ReembedCaptions, ResetJob, RunScript, Embeds
  <2>2. CASE ReembedPassesOver
    BY <2>2 DEF ReembedPassesOver, RunScript
  <2>3. ASSUME NEW e \in Embeds, ResetStatus(e)
        PROVE  embedded' \in SUBSET Embeds /\ unbacked' \in SUBSET Embeds
    BY <2>3 DEF ResetStatus
  <2>4. CASE EndReembed
    BY <2>3, <2>4 DEF EndReembed, ReembedCommits, ReembedRollsBack, Embeds
  <2>5. CASE ForceReembedImages
    BY <2>3, <2>5 DEF ForceReembedImages, RunScript, Embeds
  <2>. QED
    BY <1>6, <2>1, <2>2, <2>4, <2>5
<1>7. CASE PrunePoints \/ PruneRow \/ PruneFile
  BY <1>7 DEF PrunePoints, PruneRow, PruneFile
<1>8. CASE UNCHANGED vars
  BY <1>8 DEF vars
<1>. QED
  BY <1>1, <1>2, <1>3, <1>4, <1>5, <1>6, <1>7, <1>8 DEF Next, Work, Abandon

(***************************************************************************)
(* Type correctness.                                                       *)
(***************************************************************************)
THEOREM ImageTypeCorrect == Spec => []TypeOK
BY TypeInit, TypeStep, PTL DEF Spec

-----------------------------------------------------------------------------
(* Owners, and how far the pruning is *)

RowInv == TypeOK /\ LeaseInv /\ PruneInv

LEMMA RowInit == Init => RowInv
<1>. SUFFICES ASSUME Init PROVE LeaseInv /\ PruneInv
  BY TypeInit DEF RowInv
<1>. QED
  BY DEF Init, LeaseInv, PruneInv

LEMMA RowStep == RowInv /\ [Next]_vars => RowInv'
<1>. SUFFICES ASSUME RowInv, [Next]_vars PROVE LeaseInv' /\ PruneInv'
  BY TypeStep DEF RowInv
<1>. USE ImagesAssumption DEF RowInv, TypeOK, LeaseInv, PruneInv, rows, image, workers, scripts
<1>1. CASE ReceiveImage \/ ReceiveFails
  BY <1>1 DEF ReceiveImage, ReceiveFails, Jobs
<1>2. ASSUME NEW w \in Workers, NEW j \in Jobs, Claim(w, j) PROVE LeaseInv' /\ PruneInv'
  BY <1>2 DEF Claim
<1>3. ASSUME NEW w \in Workers, Load(w) \/ StorePoint(w) \/ RollBack(w)
      PROVE  LeaseInv' /\ PruneInv'
  BY <1>3 DEF Load, StorePoint, RollBack
<1>4. ASSUME NEW w \in Workers, Commit(w) \/ CommitException(w) PROVE LeaseInv' /\ PruneInv'
  <2>0. task[w] \in Jobs /\ state[task[w]] = "leased"
    BY <1>4 DEF Commit, CommitCaption, CommitNoCaption, CommitEmbedding, CommitNothing,
                CommitException, Release
  <2>1. CASE CommitCaption(w)
    BY <2>0, <2>1 DEF CommitCaption
  <2>2. CASE CommitNoCaption(w)
    BY <2>0, <2>2 DEF CommitNoCaption, Release
  <2>3. CASE CommitEmbedding(w) \/ CommitNothing(w) \/ CommitException(w)
    BY <2>0, <2>3 DEF CommitEmbedding, CommitNothing, CommitException, Release
  <2>. QED
    BY <1>4, <2>1, <2>2, <2>3 DEF Commit
<1>5. ASSUME NEW j \in Jobs, Reclaim(j) \/ ReplayJob(j) PROVE LeaseInv' /\ PruneInv'
  BY <1>5 DEF Reclaim, ReplayJob, ResetJob, RunScript
<1>6. CASE ReembedCaptions \/ ReembedPassesOver \/ EndReembed
  BY <1>6 DEF ReembedCaptions, ReembedPassesOver, EndReembed, ReembedCommits, ReembedRollsBack,
              ResetJob, RunScript, Jobs, Embeds
<1>7. CASE ForceReembedImages
  BY <1>7 DEF ForceReembedImages
<1>8. CASE PrunePoints \/ PruneRow \/ PruneFile
  BY <1>8 DEF PrunePoints, PruneRow, PruneFile
<1>9. CASE UNCHANGED vars
  BY <1>9 DEF vars
<1>. QED
  BY <1>1, <1>2, <1>3, <1>4, <1>5, <1>6, <1>7, <1>8, <1>9 DEF Next, Work, Abandon

-----------------------------------------------------------------------------
(* Points and files *)

PointsInv == TypeOK /\ StoredInv /\ EmbeddedHasPoint

LEMMA PointsInit == Init => PointsInv
<1>. SUFFICES ASSUME Init PROVE StoredInv /\ EmbeddedHasPoint
  BY TypeInit DEF PointsInv
<1>. QED
  BY DEF Init, StoredInv, EmbeddedHasPoint

LEMMA PointsStep == PointsInv /\ [Next]_vars => PointsInv'
<1>. SUFFICES ASSUME PointsInv, [Next]_vars PROVE StoredInv' /\ EmbeddedHasPoint'
  BY TypeStep DEF PointsInv
<1>. USE DEF PointsInv, TypeOK, StoredInv, EmbeddedHasPoint, rows, image, workers, scripts,
             ToPhase, ToIdle
<1>1. CASE ReceiveImage \/ ReceiveFails
  BY <1>1 DEF ReceiveImage, ReceiveFails
<1>2. ASSUME NEW w \in Workers, NEW j \in Jobs, Claim(w, j)
      PROVE  StoredInv' /\ EmbeddedHasPoint'
  BY <1>2 DEF Claim
<1>3. ASSUME NEW w \in Workers, Load(w) \/ RollBack(w) PROVE StoredInv' /\ EmbeddedHasPoint'
  BY <1>3 DEF Load, RollBack
<1>4. ASSUME NEW w \in Workers, StorePoint(w) PROVE StoredInv' /\ EmbeddedHasPoint'
  BY <1>4 DEF StorePoint
<1>5. ASSUME NEW w \in Workers, Commit(w) \/ CommitException(w)
      PROVE  StoredInv' /\ EmbeddedHasPoint'
  <2>1. CASE CommitCaption(w) \/ CommitNoCaption(w)
    BY <2>1 DEF CommitCaption, CommitNoCaption, Release
  <2>2. CASE CommitEmbedding(w)
    BY <2>2 DEF CommitEmbedding, Release
  <2>3. CASE CommitNothing(w) \/ CommitException(w)
    BY <2>3 DEF CommitNothing, CommitException, Release
  <2>. QED
    BY <1>5, <2>1, <2>2, <2>3 DEF Commit
<1>6. ASSUME NEW j \in Jobs, Reclaim(j) \/ ReplayJob(j) PROVE StoredInv' /\ EmbeddedHasPoint'
  BY <1>6 DEF Reclaim, ReplayJob
<1>7. CASE ReembedCaptions \/ ReembedPassesOver \/ EndReembed \/ ForceReembedImages
  BY <1>7 DEF ReembedCaptions, ReembedPassesOver, EndReembed, ReembedCommits, ReembedRollsBack,
              ForceReembedImages, ResetStatus
<1>8. CASE PrunePoints \/ PruneRow \/ PruneFile
  BY <1>8 DEF PrunePoints, PruneRow, PruneFile
<1>9. CASE UNCHANGED vars
  BY <1>9 DEF vars
<1>. QED
  BY <1>1, <1>2, <1>3, <1>4, <1>5, <1>6, <1>7, <1>8, <1>9 DEF Next, Work, Abandon

(***************************************************************************)
(* A status 'success' has its vector in Qdrant: the vector of an attempt   *)
(* that has stored it stays (StoredInv), whichever attempt that is.        *)
(***************************************************************************)
THEOREM PointsComeFirst == Spec => []EmbeddedHasPoint
<1>1. PointsInv => EmbeddedHasPoint
  BY DEF PointsInv
<1>. QED
  BY <1>1, PointsInit, PointsStep, PTL DEF Spec

FileInv == RowInv /\ RowHasFile

LEMMA FileStep == FileInv /\ [Next]_vars => FileInv'
<1>. SUFFICES ASSUME FileInv, [Next]_vars PROVE RowHasFile'
  BY RowStep DEF FileInv
<1>. USE DEF FileInv, RowInv, PruneInv, RowHasFile, rows, image, workers, scripts
<1>1. CASE ReceiveImage \/ ReceiveFails
  BY <1>1 DEF ReceiveImage, ReceiveFails
<1>2. ASSUME NEW w \in Workers, Work(w) \/ CommitException(w) \/ RollBack(w) PROVE RowHasFile'
  BY <1>2 DEF Work, Claim, Load, StorePoint, RollBack, Abandon, Commit, CommitCaption,
              CommitNoCaption, CommitEmbedding, CommitNothing, CommitException, Release
<1>3. ASSUME NEW j \in Jobs, Reclaim(j) \/ ReplayJob(j) PROVE RowHasFile'
  BY <1>3 DEF Reclaim, ReplayJob
<1>4. CASE ReembedCaptions \/ ReembedPassesOver \/ EndReembed \/ ForceReembedImages
  BY <1>4 DEF ReembedCaptions, ReembedPassesOver, EndReembed, ReembedCommits, ReembedRollsBack,
              ForceReembedImages
<1>5. CASE PrunePoints \/ PruneRow \/ PruneFile
  BY <1>5 DEF PrunePoints, PruneRow, PruneFile
<1>6. CASE UNCHANGED vars
  BY <1>6 DEF vars
<1>. QED
  BY <1>1, <1>2, <1>3, <1>4, <1>5, <1>6 DEF Next

(***************************************************************************)
(* An image row has its file, pruning and failed pushes included.          *)
(***************************************************************************)
THEOREM RowsHaveFiles == Spec => []RowHasFile
<1>1. Init => FileInv
  BY RowInit DEF FileInv, Init, RowHasFile
<1>2. FileInv => RowHasFile
  BY DEF FileInv
<1>. QED
  BY <1>1, <1>2, FileStep, PTL DEF Spec

-----------------------------------------------------------------------------
(* Captions and the jobs that embed them *)

CaptionParts ==
  KnownInv /\ CaptionChains /\ SucceededIsEmbedded

CaptionInv == RowInv /\ CaptionParts

LEMMA CaptionInit == Init => CaptionInv
<1>. SUFFICES ASSUME Init PROVE CaptionParts
  BY RowInit DEF CaptionInv, CaptionParts
<1>. QED
  BY DEF Init, CaptionParts, KnownInv, CaptionChains,
         SucceededIsEmbedded, Jobs

LEMMA CaptionStep == CaptionInv /\ [Next]_vars => CaptionInv'
<1>. SUFFICES ASSUME CaptionInv, [Next]_vars PROVE CaptionParts'
  BY RowStep DEF CaptionInv, CaptionParts
<1>. USE ImagesAssumption DEF CaptionInv, RowInv, TypeOK, LeaseInv, KnownInv, CaptionParts,
       CaptionChains, SucceededIsEmbedded,
       rows, image, workers, scripts, ToPhase, ToIdle, Jobs
<1>1. CASE ReceiveImage \/ ReceiveFails
  BY <1>1 DEF ReceiveImage, ReceiveFails
<1>2. ASSUME NEW w \in Workers, NEW j \in Jobs, Claim(w, j) PROVE CaptionParts'
  <2>1. KnownInv'
    BY <1>2 DEF Claim
  <2>2. CaptionChains' /\ SucceededIsEmbedded'
    BY <1>2 DEF Claim
  <2>. QED
    BY <2>1, <2>2
<1>3. ASSUME NEW w \in Workers, Load(w) PROVE CaptionParts'
  BY <1>3 DEF Load, Done
<1>4. ASSUME NEW w \in Workers, StorePoint(w) \/ RollBack(w) PROVE CaptionParts'
  BY <1>4 DEF StorePoint, RollBack
<1>5. ASSUME NEW w \in Workers, CommitCaption(w) PROVE CaptionParts'
  <2>1. captionStatus # "success"
    BY <1>5 DEF CommitCaption
  <2>2. CaptionChains'
    BY <1>5 DEF CommitCaption
  <2>3. SucceededIsEmbedded'
    BY <1>5, <2>1 DEF CommitCaption
  <2>4. KnownInv'
    BY <1>5, <2>1 DEF CommitCaption
  <2>. QED
    BY <2>2, <2>3, <2>4
<1>6. ASSUME NEW w \in Workers, CommitNoCaption(w) PROVE CaptionParts'
  <2>1. captionStatus # "success"
    BY <1>6 DEF CommitNoCaption, Release
  <2>. QED
    BY <1>6, <2>1 DEF CommitNoCaption, Release
<1>7. ASSUME NEW w \in Workers, CommitEmbedding(w) \/ CommitNothing(w) \/ CommitException(w)
      PROVE  CaptionParts'
  <2>1. task[w] \in Jobs /\ state[task[w]] = "leased" /\ captionStatus' = captionStatus
    BY <1>7 DEF CommitEmbedding, CommitNothing, CommitException, Release
  <2>2. \A j \in Jobs : state'[j] = "absent" <=> state[j] = "absent"
    BY <1>7, <2>1 DEF CommitEmbedding, CommitNothing, CommitException, Release
  <2>3. CaptionChains'
    BY <2>1, <2>2
  <2>4. SucceededIsEmbedded'
    BY <1>7, <2>1 DEF CommitEmbedding, CommitNothing, CommitException, Release
  <2>5. KnownInv'
    BY <1>7, <2>1 DEF CommitEmbedding, CommitNothing, CommitException, Release
  <2>. QED
    BY <2>3, <2>4, <2>5
<1>8. ASSUME NEW j \in Jobs, Reclaim(j) \/ ReplayJob(j) PROVE CaptionParts'
  BY <1>8 DEF Reclaim, ReplayJob, ResetJob
<1>9. CASE ReembedCaptions
  BY <1>9 DEF ReembedCaptions, ResetJob
<1>10. CASE ForceReembedImages
  BY <1>10 DEF ForceReembedImages, ResetStatus, Unbacked
<1>11. CASE PrunePoints \/ PruneRow \/ PruneFile
  BY <1>11 DEF PrunePoints, PruneRow, PruneFile
<1>12. CASE ReembedPassesOver \/ ReembedRollsBack
  BY <1>12 DEF ReembedPassesOver, ReembedRollsBack
<1>13. CASE ReembedCommits
  BY <1>13 DEF ReembedCommits, ResetStatus, Unbacked
<1>14. CASE UNCHANGED vars
  BY <1>14 DEF vars
<1>. QED
  BY <1>1, <1>2, <1>3, <1>4, <1>5, <1>6, <1>7, <1>8, <1>9, <1>10, <1>11, <1>12, <1>13, <1>14
     DEF Next, Work, Abandon, Commit, EndReembed

(***************************************************************************)
(* A caption has its embedding jobs, and they have their caption.  Between *)
(* its SELECT and its release nobody but the lease's holder can write the  *)
(* caption (KnownInv), so no attempt writes over a caption that is chained.*)
(***************************************************************************)
THEOREM CaptionsChain == Spec => [](CaptionChains)
<1>1. CaptionInv => CaptionChains
  BY DEF CaptionInv, CaptionParts
<1>. QED
  BY <1>1, CaptionInit, CaptionStep, PTL DEF Spec

(***************************************************************************)
(* Whatever is replayed or re-embedded and whoever is late, a settled      *)
(* embedding job has left its status, up to the two ways in which a script *)
(* resets it behind the back of a job that is done: --force, and           *)
(* reembed_captions overtaken before its commit.  There is no third way: a *)
(* worker that holds the lease and found nothing to do found what is still *)
(* there, or was overtaken in one of them (KnownInv).                      *)
(***************************************************************************)
THEOREM SettledIsEmbedded == Spec => []SucceededIsEmbedded
<1>1. CaptionInv => SucceededIsEmbedded
  BY DEF CaptionInv, CaptionParts
<1>. QED
  BY <1>1, CaptionInit, CaptionStep, PTL DEF Spec

-----------------------------------------------------------------------------
(* The rows of the queue *)

\* What the lease, the chain and the attempts left say together.
QueueInv == CaptionInv /\ ClaimInv

LEMMA ClaimInit == Init => ClaimInv
  BY ImagesAssumption DEF Init, ClaimInv, Jobs, Embeds

\* A step that leaves the rows alone, and nobody newly with nothing to do.
LEMMA ClaimKept ==
  ASSUME ClaimInv, UNCHANGED <<state, attempts>>,
         \A w \in Workers : phase'[w] = "noop" => phase[w] = "noop" /\ task'[w] = task[w]
  PROVE  ClaimInv'
  BY DEF ClaimInv

LEMMA ClaimStep == QueueInv /\ [Next]_vars => ClaimInv'
<1>. SUFFICES ASSUME QueueInv, [Next]_vars PROVE ClaimInv'
  OBVIOUS
<1>. USE ImagesAssumption
     DEF QueueInv, CaptionInv, RowInv, TypeOK, rows, image, workers, scripts, ToPhase, ToIdle
<1>1. CASE ReceiveImage \/ ReceiveFails
  BY <1>1 DEF ReceiveImage, ReceiveFails, ClaimInv, Jobs
<1>2. ASSUME NEW w \in Workers, NEW j \in Jobs, Claim(w, j) PROVE ClaimInv'
  BY <1>2 DEF Claim, ClaimInv, Jobs
<1>3. ASSUME NEW w \in Workers, Load(w) PROVE ClaimInv'
  <2>1. task[w] = caption /\ phase'[w] = "noop" => \A e \in Embeds : state[e] # "absent"
    BY <1>3 DEF Load, Done, CaptionParts, CaptionChains
  <2>. QED
    BY <1>3, <2>1 DEF Load, ClaimInv
<1>4. ASSUME NEW w \in Workers, StorePoint(w) \/ RollBack(w) PROVE ClaimInv'
  BY <1>4, ClaimKept DEF StorePoint, RollBack
<1>5. ASSUME NEW w \in Workers, CommitCaption(w) PROVE ClaimInv'
  BY <1>5 DEF CommitCaption, ClaimInv, Jobs
<1>6. ASSUME NEW w \in Workers, NEW s \in {"succeeded", "failed_terminal", "retry_wait"},
             task[w] \in Jobs, Release(w, s)
      PROVE  ClaimInv'
  BY <1>6 DEF Release, ClaimInv, Jobs
<1>7. ASSUME NEW j \in Jobs, Reclaim(j) \/ ReplayJob(j) PROVE ClaimInv'
  BY <1>7 DEF Reclaim, ReplayJob, ResetJob, ClaimInv, Jobs
<1>8. CASE ReembedCaptions
  BY <1>8 DEF ReembedCaptions, ResetJob, ClaimInv, Jobs
<1>9. CASE ForceReembedImages
  BY <1>9 DEF ForceReembedImages, ClaimInv, Jobs
<1>10. CASE \/ PrunePoints \/ PruneRow \/ PruneFile \/ UNCHANGED vars
            \/ ReembedPassesOver \/ EndReembed
  BY <1>10, ClaimKept DEF PrunePoints, PruneRow, PruneFile, vars, ReembedPassesOver, EndReembed,
                          ReembedCommits, ReembedRollsBack
<1>11. ASSUME NEW w \in Workers, Commit(w) \/ CommitException(w), ~ CommitCaption(w)
       PROVE  \E s \in {"succeeded", "failed_terminal", "retry_wait"} :
                task[w] \in Jobs /\ Release(w, s)
  BY <1>11 DEF Commit, CommitNoCaption, CommitEmbedding, CommitNothing, CommitException
<1>. QED
  BY <1>1, <1>2, <1>3, <1>4, <1>5, <1>6, <1>7, <1>8, <1>9, <1>10, <1>11 DEF Next, Work, Abandon

\* A commit is an end of the attempt: with all that is downstream, or without success.
LEMMA CommitLifecycle ==
  ASSUME QueueInv, NEW w \in Workers, Commit(w) \/ CommitException(w)
  PROVE  Queue!LifecycleNext
<1>. USE ImagesAssumption DEF QueueInv, CaptionInv, RowInv, TypeOK, LeaseInv, ClaimInv
<1>1. task[w] \in Jobs /\ state[task[w]] = "leased" /\ UNCHANGED attempts
  BY DEF Commit, CommitCaption, CommitNoCaption, CommitEmbedding, CommitNothing,
         CommitException, Release
<1>2. ASSUME Queue!Succeed(task[w]) \/ Queue!Fail(task[w]) PROVE Queue!LifecycleNext
  BY <1>1, <1>2 DEF Queue!LifecycleNext, Queue!Attempted
<1>3. CASE CommitCaption(w)
  <2>1. state' = [c \in Jobs |->
          IF c = task[w] THEN "succeeded"
          ELSE IF c \in [j \in Jobs |-> IF j = caption THEN Embeds ELSE {}][task[w]]
                  /\ state[c] = "absent" THEN "pending"
          ELSE state[c]]
    BY <1>3 DEF CommitCaption, Jobs
  <2>. QED
    BY <1>1, <1>2, <2>1 DEF Queue!Succeed
<1>4. ASSUME NEW s \in {"retry_wait", "failed_terminal"}, Release(w, s) PROVE Queue!LifecycleNext
  BY <1>1, <1>2, <1>4 DEF Queue!Fail, Release
<1>5. ASSUME Release(w, "succeeded"), task[w] = caption => phase[w] = "noop"
      PROVE  Queue!LifecycleNext
  <2>1. \A c \in Jobs : ~(/\ c \in [j \in Jobs |-> IF j = caption THEN Embeds ELSE {}][task[w]]
                          /\ state[c] = "absent")
    BY <1>1, <1>5 DEF Jobs
  <2>2. state' = [c \in Jobs |->
          IF c = task[w] THEN "succeeded"
          ELSE IF c \in [j \in Jobs |-> IF j = caption THEN Embeds ELSE {}][task[w]]
                  /\ state[c] = "absent" THEN "pending"
          ELSE state[c]]
    BY <1>5, <2>1 DEF Release
  <2>. QED
    BY <1>1, <1>2, <2>2 DEF Queue!Succeed
<1>6. CASE CommitNoCaption(w) \/ CommitException(w)
  BY <1>4, <1>6 DEF CommitNoCaption, CommitException
<1>7. CASE CommitEmbedding(w)
  BY <1>5, <1>7 DEF CommitEmbedding, Embeds
<1>8. CASE CommitNothing(w)
  BY <1>4, <1>5, <1>8 DEF CommitNothing
<1>. QED
  BY <1>3, <1>6, <1>7, <1>8 DEF Commit

LEMMA RowsLifecycle ==
  ASSUME QueueInv, [Next]_vars
  PROVE  \/ Queue!LifecycleNext
         \/ ops' = ops + 1 /\ \E j \in Jobs : Restarted(j)
         \/ UNCHANGED <<state, attempts>>
<1>. DEFINE Good == \/ Queue!LifecycleNext
                    \/ ops' = ops + 1 /\ \E j \in Jobs : Restarted(j)
                    \/ UNCHANGED <<state, attempts>>
<1>. SUFFICES Good
  OBVIOUS
<1>. USE ImagesAssumption
     DEF QueueInv, CaptionInv, RowInv, TypeOK, rows, image, workers, scripts
<1>1. ASSUME NEW j \in Jobs, UNCHANGED attempts,
             state' = [state EXCEPT ![j] = IF @ = "absent" THEN "pending" ELSE @]
      PROVE  Good
  BY <1>1 DEF Queue!LifecycleNext, Queue!Insert
<1>2. ASSUME NEW j \in Jobs, ops' = ops + 1, ResetJob(j) PROVE Good
  BY <1>2 DEF ResetJob, Restarted
<1>3. CASE ReceiveImage \/ ReceiveFails
  BY <1>1, <1>3 DEF ReceiveImage, ReceiveFails, Jobs
<1>4. ASSUME NEW w \in Workers, NEW j \in Jobs, Claim(w, j) PROVE Good
  BY <1>4 DEF Claim, ClaimInv, Queue!LifecycleNext, Queue!Claim
<1>5. ASSUME NEW w \in Workers, Work(w) \/ CommitException(w) \/ RollBack(w),
             \A j \in Jobs : ~ Claim(w, j)
      PROVE  Good
  BY <1>5, CommitLifecycle DEF Work, Load, StorePoint, RollBack, Abandon
<1>6. ASSUME NEW j \in Jobs, Reclaim(j) \/ ReplayJob(j) PROVE Good
  BY <1>2, <1>6 DEF Reclaim, ReplayJob, RunScript, Queue!LifecycleNext, Queue!Attempted,
                    Queue!Reclaim
<1>7. CASE ReembedCaptions
  BY <1>2, <1>7 DEF ReembedCaptions, RunScript, Jobs, Embeds
<1>8. CASE ForceReembedImages
  BY <1>1, <1>8 DEF ForceReembedImages, Jobs, Embeds
<1>9. CASE \/ PrunePoints \/ PruneRow \/ PruneFile \/ UNCHANGED vars
           \/ ReembedPassesOver \/ EndReembed
  BY <1>9 DEF PrunePoints, PruneRow, PruneFile, vars, ReembedPassesOver, EndReembed,
              ReembedCommits, ReembedRollsBack
<1>. HIDE DEF Good
<1>. QED
  BY <1>3, <1>4, <1>5, <1>6, <1>7, <1>8, <1>9 DEF Next

(***************************************************************************)
(* The image pipeline rests on the queue by its specification alone, and   *)
(* adds to it what scripts do: its steps are those of JobLifecycle, or     *)
(* restart one job.  A claim never meets a row without attempts left, and  *)
(* a caption job that succeeds always leaves both embedding jobs behind it,*)
(* its no-ops included (ClaimInv).                                         *)
(***************************************************************************)
THEOREM UsesQueueAsSpecified == Spec => RowsFollowQueue
<1>1. Init => QueueInv
  BY CaptionInit, ClaimInit DEF QueueInv
<1>2. QueueInv /\ [Next]_vars => QueueInv'
  BY CaptionStep, ClaimStep DEF QueueInv
<1>3. Init => Queue!LifecycleInit
  BY DEF Init, Queue!LifecycleInit
<1>4. QueueInv /\ [Next]_vars =>
        [Queue!LifecycleNext \/ (ops' = ops + 1 /\ \E j \in Jobs : Restarted(j))]_Queue!rowVars
  BY RowsLifecycle DEF Queue!rowVars
<1>. QED
  BY <1>1, <1>2, <1>3, <1>4, PTL DEF Spec, RowsFollowQueue

=============================================================================
