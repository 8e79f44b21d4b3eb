-------------------------- MODULE Summaries_proofs --------------------------
(***************************************************************************)
(* Theorems about Summaries for any number of buckets, windows and workers *)
(* at work at the same time.                                               *)
(***************************************************************************)
EXTENDS Summaries, TLAPS

LEMMA TypeInit == Init => TypeOK
BY DEF Init, TypeOK, JobState

LEMMA TypeStep == TypeOK /\ [Next]_vars => TypeOK'
<1>. SUFFICES ASSUME TypeOK, [Next]_vars PROVE TypeOK'
  OBVIOUS
<1>. USE DEF TypeOK, JobState, jobs, summaries, derived
<1>1. ASSUME NEW b \in Buckets, IngestBucket(b) \/ ClaimBucket(b) \/ RollBack(b) \/ ReplayBucket(b)
      PROVE  TypeOK'
  BY <1>1 DEF IngestBucket, ClaimBucket, RollBack, ReplayBucket
<1>2. ASSUME NEW b \in Buckets, SelectLatest(b) PROVE TypeOK'
  BY <1>2 DEF SelectLatest, LatestOf
<1>3. ASSUME NEW b \in Buckets, CommitSummary(b) PROVE TypeOK'
  <2>0. UpsertSummary(b) /\ (seen[b] # NoSummary => version[seen[b]] + 1 \in Nat)
    BY <1>3 DEF CommitSummary
  <2>1. version' \in [Buckets -> Nat] /\ latest' \in [Buckets -> BOOLEAN]
    <3>1. CASE seen[b] = b
      BY <2>0, <3>1 DEF UpsertSummary
    <3>2. CASE seen[b] # b
      <4>1. version' \in [Buckets -> Nat]
        BY <2>0, <3>2 DEF UpsertSummary
      <4>2. latest' \in [Buckets -> BOOLEAN]
        BY <2>0, <3>2, Zenon DEF UpsertSummary
      <4>. QED
        BY <4>1, <4>2
    <3>. QED
      BY <3>1, <3>2
  <2>2. supersededBy' \in [Buckets -> Buckets \cup {NoSummary}]
    BY <1>3 DEF CommitSummary, UpsertSummary
  <2>3. present' \in Nat /\ rollups' \in SUBSET SUBSET Buckets
    BY <1>3 DEF CommitSummary, UpsertRollupState, ChildrenOf
  <2>4. job' \in [Buckets -> JobState] /\ seen' \in [Buckets -> Buckets \cup {NoSummary}]
    BY <1>3 DEF CommitSummary
  <2>5. embeddings' \in SUBSET Buckets /\ replayed' \in SUBSET Buckets
    BY <1>3 DEF CommitSummary
  <2>. QED
    BY <2>1, <2>2, <2>3, <2>4, <2>5
<1>4. CASE UNCHANGED vars
  BY <1>4 DEF vars
<1>. QED
  BY <1>1, <1>2, <1>3, <1>4 DEF Next

(***************************************************************************)
(* Type correctness.                                                       *)
(***************************************************************************)
THEOREM TypeCorrect == Spec => []TypeOK
BY TypeInit, TypeStep, PTL DEF Spec

-----------------------------------------------------------------------------
(* What every transaction sees and does *)

\* An upsert creates b, changes no version that exists, and makes nothing but
\* b and the row it superseded latest or not.
LEMMA UpsertEffect ==
  ASSUME TypeOK, SeenInv, NEW b \in Buckets, UpsertSummary(b)
  PROVE  /\ version'[b] > 0
         /\ \A c \in Buckets : Written(c) => version'[c] = version[c]
         /\ \A c \in Buckets : c # b => version'[c] = version[c]
         /\ \A c \in Buckets : c # b /\ latest'[c] => latest[c]
<1>. USE DEF TypeOK, SeenInv, Written
<1>1. CASE seen[b] = b
  <2>1. b # NoSummary
    BY SummariesAssumption
  <2>. QED
    BY <1>1, <2>1 DEF UpsertSummary, summaries
<1>2. CASE seen[b] # b
  <2>1. seen[b] # NoSummary => seen[b] \in Buckets /\ version[seen[b]] \in Nat
    BY SummariesAssumption
  <2>2. version' = [version EXCEPT ![b] =
          IF version[b] > 0 THEN @ ELSE IF seen[b] = NoSummary THEN 1 ELSE version[seen[b]] + 1]
    BY <1>2 DEF UpsertSummary
  <2>3. version'[b] > 0 /\ \A c \in Buckets : c # b => version'[c] = version[c]
    BY <2>1, <2>2
  <2>4. version[b] > 0 => version'[b] = version[b]
    BY <2>2
  <2>5. \A c \in Buckets : c # b /\ latest'[c] => latest[c]
    BY <1>2 DEF UpsertSummary
  <2>. QED
    BY <2>3, <2>4, <2>5
<1>. QED
  BY <1>1, <1>2

LEMMA SeenInit == Init => SeenInv
BY DEF Init, SeenInv, Written

LEMMA SeenStep ==
  ASSUME TypeOK, SeenInv, [Next]_vars
  PROVE  SeenInv'
<1>. USE DEF TypeOK, SeenInv, Written, SameWindow, jobs, summaries, derived
<1>1. ASSUME NEW b \in Buckets, IngestBucket(b) \/ ClaimBucket(b) \/ RollBack(b) \/ ReplayBucket(b)
      PROVE  SeenInv'
  BY <1>1 DEF IngestBucket, ClaimBucket, RollBack, ReplayBucket
<1>2. ASSUME NEW b \in Buckets, SelectLatest(b) PROVE SeenInv'
  BY <1>2 DEF SelectLatest, LatestOf
<1>3. ASSUME NEW b \in Buckets, CommitSummary(b) PROVE SeenInv'
  <2>1. UpsertSummary(b) /\ seen' = [seen EXCEPT ![b] = NoSummary]
    BY <1>3 DEF CommitSummary
  <2>2. \A c \in Buckets : Written(c) => Written(c)'
    BY <2>1, UpsertEffect
  <2>3. \A c \in Buckets : latest'[c] => Written(c)'
    BY <2>1, <2>2, UpsertEffect
  <2>4. \A c \in Buckets : seen'[c] # NoSummary => seen'[c] = seen[c]
    BY <2>1
  <2>5. ASSUME NEW c \in Buckets, seen'[c] # NoSummary
        PROVE  seen'[c] \in SameWindow(c)' /\ Written(seen[c])'
    BY <2>2, <2>4, <2>5
  <2>. QED
    BY <2>3, <2>4, <2>5
<1>4. CASE UNCHANGED vars
  BY <1>4 DEF vars
<1>. QED
  BY <1>1, <1>2, <1>3, <1>4 DEF Next

-----------------------------------------------------------------------------
(* Embedding jobs *)

LEMMA EmbeddingStep ==
  ASSUME TypeOK, SeenInv, EmbeddingPerSummary, [Next]_vars
  PROVE  EmbeddingPerSummary'
<1>. USE DEF EmbeddingPerSummary, Written
<1>1. ASSUME NEW b \in Buckets, CommitSummary(b) PROVE EmbeddingPerSummary'
  <2>1. UpsertSummary(b) /\ embeddings' = embeddings \cup {b}
    BY <1>1 DEF CommitSummary
  <2>. QED
    BY <2>1, UpsertEffect
<1>2. CASE \A b \in Buckets : ~CommitSummary(b)
  BY <1>2 DEF Next, IngestBucket, ClaimBucket, SelectLatest, RollBack, ReplayBucket, vars,
       jobs, summaries, derived
<1>. QED
  BY <1>1, <1>2

(***************************************************************************)
(* Replays and rolled-back attempts included, the summaries that exist are *)
(* those that have an embedding job: insert_embedding_job is part of the   *)
(* summary's transaction.                                                  *)
(***************************************************************************)
THEOREM EmbeddingJobs == Spec => []EmbeddingPerSummary
<1>1. Init => EmbeddingPerSummary
  BY DEF Init, EmbeddingPerSummary, Written
<1>. QED
  BY TypeCorrect, SeenInit, SeenStep, <1>1, EmbeddingStep, PTL DEF Spec

-----------------------------------------------------------------------------
(* Latest summaries *)

LEMMA OnceStep ==
  ASSUME TypeOK, SeenInv, OnceInv, [Next]_vars
  PROVE  OnceInv'
<1>. USE DEF TypeOK, OnceInv, Written
<1>1. ASSUME NEW b \in Buckets, CommitSummary(b) PROVE OnceInv'
  <2>1. /\ UpsertSummary(b)
        /\ job' = [job EXCEPT ![b] = "succeeded"]
        /\ UNCHANGED replayed
    BY <1>1 DEF CommitSummary
  <2>. QED
    BY <2>1, UpsertEffect
<1>2. ASSUME NEW b \in Buckets, IngestBucket(b) \/ ClaimBucket(b) \/ SelectLatest(b) \/ RollBack(b)
      PROVE  OnceInv'
  BY <1>2 DEF IngestBucket, ClaimBucket, SelectLatest, RollBack, summaries
<1>3. ASSUME NEW b \in Buckets, ReplayBucket(b) PROVE OnceInv'
  BY <1>3 DEF ReplayBucket, summaries
<1>4. CASE UNCHANGED vars
  BY <1>4 DEF vars, jobs, summaries
<1>. QED
  BY <1>1, <1>2, <1>3, <1>4 DEF Next

LatestInv == SomeSummaryIsLatest /\ SupersededByNewer

LEMMA LatestStep ==
  ASSUME TypeOK, SeenInv, OnceInv, LatestInv, [Next]_vars
  PROVE  LatestInv'
<1>1. ASSUME NEW b \in Buckets, CommitSummary(b) PROVE LatestInv'
  <2>. DEFINE old == seen[b]
  <2>1. /\ UpsertSummary(b)
        /\ job[b] = "upserting"
        /\ UNCHANGED replayed
    BY <1>1 DEF CommitSummary
  <2>2. old # NoSummary => /\ old \in Buckets /\ Written(old)
                           /\ WindowOf[old] = WindowOf[b]
    BY DEF SeenInv, SameWindow
  \* What happens to the window of another bucket c.
  <2>3. ASSUME NEW c \in Buckets, WindowOf[c] # WindowOf[b]
        PROVE  /\ version'[c] = version[c]
               /\ latest'[c] = latest[c]
               /\ supersededBy'[c] = supersededBy[c]
    <3>1. c # b /\ c # old
      BY <2>2, <2>3, SummariesAssumption
    <3>. QED
      BY <2>1, <3>1 DEF UpsertSummary, summaries, TypeOK
  \* A bucket nobody replayed is written by this very step.
  <2>4. ASSUME b \notin replayed
        PROVE  /\ ~Written(b) /\ old # b
               /\ version' = [version EXCEPT ![b] = IF old = NoSummary THEN 1 ELSE version[old] + 1]
               /\ latest' = [c \in Buckets |-> IF c = old THEN FALSE ELSE IF c = b THEN TRUE ELSE latest[c]]
               /\ supersededBy' = [c \in Buckets |-> IF c = old THEN b ELSE supersededBy[c]]
    <3>1. ~Written(b)
      BY <2>1, <2>4 DEF OnceInv
    <3>2. old # b
      BY <2>2, <3>1, SummariesAssumption
    <3>. QED
      BY <2>1, <3>1, <3>2 DEF UpsertSummary, TypeOK, Written
  <2>5. ASSUME NEW c \in Buckets, Written(c)', Unreplayed(c)
        PROVE  \E d \in Buckets : WindowOf[d] = WindowOf[c] /\ latest'[d]
    <3>1. CASE WindowOf[c] = WindowOf[b]
      <4>1. b \notin replayed
        BY <2>5, <3>1 DEF Unreplayed, SameWindow
      <4>. QED
        BY <2>4, <3>1, <4>1
    <3>2. CASE WindowOf[c] # WindowOf[b]
      <4>1. Written(c)
        BY <2>3, <2>5, <3>2 DEF Written
      <4>2. PICK d \in Buckets : WindowOf[d] = WindowOf[c] /\ latest[d]
        BY <2>5, <4>1 DEF LatestInv, SomeSummaryIsLatest, LatestOf
      <4>. QED
        BY <2>3, <3>2, <4>2
    <3>. QED
      BY <3>1, <3>2
  <2>6. ASSUME NEW c \in Buckets, Written(c)', Unreplayed(c), ~latest'[c]
        PROVE  supersededBy'[c] \in SameWindow(c) /\ version'[supersededBy'[c]] > version'[c]
    <3>1. CASE WindowOf[c] = WindowOf[b]
      <4>0. b \notin replayed
        BY <2>6, <3>1 DEF Unreplayed, SameWindow
      <4>1. CASE c = old
        <5>1. /\ old # NoSummary /\ old # b /\ WindowOf[old] = WindowOf[b]
              /\ version[old] \in Nat
          BY <2>2, <2>4, <4>0, <4>1, SummariesAssumption DEF TypeOK
        <5>2. supersededBy'[c] = b
          BY <2>4, <4>0, <4>1
        <5>3. version'[b] = version[old] + 1 /\ version'[c] = version[old]
          BY <2>4, <4>0, <4>1, <5>1 DEF TypeOK
        <5>. QED
          BY <4>1, <5>1, <5>2, <5>3 DEF SameWindow
      <4>2. CASE c # old
        <5>1. c # b /\ Written(c) /\ ~latest[c]
          BY <2>4, <2>6, <4>0, <4>2 DEF Written, TypeOK
        <5>2. supersededBy[c] \in SameWindow(c) /\ version[supersededBy[c]] > version[c]
          BY <2>6, <5>1 DEF LatestInv, SupersededByNewer
        <5>3. supersededBy[c] # b
          BY <2>4, <4>0, <5>1, <5>2 DEF Written, TypeOK
        <5>4. supersededBy'[c] = supersededBy[c]
          BY <2>4, <4>0, <4>2
        <5>5. \A d \in Buckets : d # b => version'[d] = version[d]
          BY <2>4, <4>0 DEF TypeOK
        <5>. QED
          BY <5>1, <5>2, <5>3, <5>4, <5>5 DEF SameWindow
      <4>. QED
        BY <4>1, <4>2
    <3>2. CASE WindowOf[c] # WindowOf[b]
      <4>1. Written(c) /\ ~latest[c]
        BY <2>3, <2>6, <3>2 DEF Written
      <4>2. supersededBy[c] \in SameWindow(c) /\ version[supersededBy[c]] > version[c]
        BY <2>6, <4>1 DEF LatestInv, SupersededByNewer
      <4>3. WindowOf[supersededBy[c]] # WindowOf[b] /\ supersededBy[c] \in Buckets
        BY <3>2, <4>2 DEF SameWindow
      <4>. QED
        BY <2>3, <3>2, <4>2, <4>3
    <3>. QED
      BY <3>1, <3>2
  <2>. QED
    BY <2>1, <2>5, <2>6 DEF LatestInv, SomeSummaryIsLatest, LatestOf, SupersededByNewer,
         SameWindow, Unreplayed
<1>2. CASE \A b \in Buckets : ~CommitSummary(b)
  <2>1. UNCHANGED summaries /\ replayed \subseteq replayed'
    BY <1>2 DEF Next, IngestBucket, ClaimBucket, SelectLatest, RollBack, ReplayBucket, vars,
         jobs, summaries
  <2>2. \A b \in Buckets : Unreplayed(b)' => Unreplayed(b)
    BY <2>1 DEF Unreplayed, SameWindow
  <2>. QED
    BY <2>1, <2>2 DEF LatestInv, SomeSummaryIsLatest, SupersededByNewer, LatestOf, Written,
         SameWindow, summaries
<1>. QED
  BY <1>1, <1>2

LEMMA LatestAlways == Spec => []LatestInv
<1>1. Init => OnceInv /\ LatestInv
  BY DEF Init, OnceInv, LatestInv, SomeSummaryIsLatest, SupersededByNewer, Written
<1>2. TypeOK /\ SeenInv /\ OnceInv /\ LatestInv /\ [Next]_vars => (OnceInv /\ LatestInv)'
  BY OnceStep, LatestStep
<1>. QED
  BY TypeCorrect, SeenInit, SeenStep, <1>1, <1>2, PTL DEF Spec

(***************************************************************************)
(* Whatever workers race on a window, one of its summaries is latest, as   *)
(* long as no operator replays the job of one of them.                     *)
(***************************************************************************)
THEOREM AlwaysALatest == Spec => []SomeSummaryIsLatest
<1>1. LatestInv => SomeSummaryIsLatest
  BY DEF LatestInv
<1>. QED
  BY LatestAlways, <1>1, PTL

(***************************************************************************)
(* Whatever workers race on a window, superseded_by leads from version to  *)
(* higher version: following it ends.                                      *)
(***************************************************************************)
THEOREM SupersedingEnds == Spec => []SupersededByNewer
<1>1. LatestInv => SupersededByNewer
  BY DEF LatestInv
<1>. QED
  BY LatestAlways, <1>1, PTL

-----------------------------------------------------------------------------
(* Rollups *)

\* What changes the rollup state: commits.
LEMMA OnlyCommitsCount ==
  ASSUME [Next]_vars
  PROVE  (\E b \in Buckets : CommitSummary(b)) \/ UNCHANGED <<latest, present, rollups>>
BY DEF Next, IngestBucket, ClaimBucket, SelectLatest, RollBack, ReplayBucket, vars, jobs,
   summaries, derived

(***************************************************************************)
(* The trigger never fires: summaries are written under scope_id           *)
(* serial_number:camera_id and looked up under camera_id                   *)
(* (summary_db.py:293), so that no hour has a rollup job, ever.            *)
(***************************************************************************)
THEOREM NothingRolledUp == ScopeId # CameraId => (Spec => [](rollups = {}))
<1>. SUFFICES ASSUME ScopeId # CameraId PROVE Spec => [](rollups = {})
  OBVIOUS
<1>1. Init => rollups = {}
  BY DEF Init
<1>2. rollups = {} /\ [Next]_vars => (rollups = {})'
  <2>. SUFFICES ASSUME rollups = {}, [Next]_vars PROVE rollups' = {}
    OBVIOUS
  <2>1. ASSUME NEW b \in Buckets, CommitSummary(b) PROVE rollups' = {}
    BY <2>1 DEF CommitSummary, UpsertRollupState, ChildrenOf
  <2>. QED
    BY <2>1, OnlyCommitsCount
<1>. QED
  BY <1>1, <1>2, PTL DEF Spec

(***************************************************************************)
(* ... and the names are all that is wrong: if they agreed, every hour     *)
(* that is covered would be rolled up, whatever workers race on it and     *)
(* operators replay.                                                       *)
(***************************************************************************)
THEOREM RolledUpIfNamesAgree == ScopeId = CameraId => (Spec => []CoveredIsRolledUp)
<1>. SUFFICES ASSUME ScopeId = CameraId PROVE Spec => []CoveredIsRolledUp
  OBVIOUS
<1>1. Init => CoveredIsRolledUp
  BY DEF Init, CoveredIsRolledUp
<1>2. CoveredIsRolledUp /\ [Next]_vars => CoveredIsRolledUp'
  <2>1. ASSUME NEW b \in Buckets, CommitSummary(b) PROVE CoveredIsRolledUp'
    <3>1. /\ present' = present + 1
          /\ rollups' = IF Covered(present + 1) /\ ChildrenOf(CameraId) # {}
                          THEN rollups \cup {ChildrenOf(CameraId)} ELSE rollups
      BY <2>1 DEF CommitSummary, UpsertRollupState
    <3>2. ASSUME NEW c \in Buckets, latest'[c] PROVE c \in ChildrenOf(CameraId)
      BY <3>2 DEF ChildrenOf
    <3>. QED
      BY <3>1, <3>2 DEF CoveredIsRolledUp, Covered
  <2>2. CASE UNCHANGED <<latest, present, rollups>> /\ CoveredIsRolledUp
    BY <2>2 DEF CoveredIsRolledUp, Covered
  <2>. QED
    BY <2>1, <2>2, OnlyCommitsCount
<1>. QED
  BY <1>1, <1>2, PTL DEF Spec

=============================================================================
