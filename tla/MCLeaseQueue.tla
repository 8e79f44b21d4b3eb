---------------------------- MODULE MCLeaseQueue ----------------------------
(***************************************************************************)
(* Instances of LeaseQueue for TLC: the job rows are a bucket summary that *)
(* inserts the job of its embedding, or two unrelated rows.                *)
(***************************************************************************)
EXTENDS LeaseQueue, TLC

CONSTANTS bucket, embedding

\* insert_embedding_job: the summary's embedding is a job of its own.
Chained == [j \in Jobs |-> IF j = bucket THEN {embedding} \ {bucket} ELSE {}]
Unrelated == [j \in Jobs |-> {}]

\* Processes are alike: a symmetry for the run that checks no liveness.
Alike == Permutations(Workers) \cup Permutations(Reclaimers)

\* Bound of that run: messages of the bucket; the job of the embedding is
\* inserted and goes no further than its message.
FewMessages == sent[bucket] <= 3 /\ sent[embedding] = 0

=============================================================================
