SPECIFICATION FairSpec
CONSTANTS
  bucket = bucket
  embedding = embedding
  Jobs = {bucket, embedding}
  Workers = {w1, w2}
  Reclaimers = {r1}
  NoWorker = NoWorker
  MaxAttempts = 2
  Downstream <- Chained
  Faults = {"abandon"}
INVARIANTS
  NoLostJob
  NoConcurrentExecution
PROPERTIES
  RunningLeaseNotReclaimed
  RowsFollowLifecycle
  EveryJobSettles
