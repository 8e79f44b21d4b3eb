SPECIFICATION Spec
CONSTANTS
  bucket = bucket
  embedding = embedding
  Jobs = {bucket, embedding}
  Workers = {w1, w2}
  Reclaimers = {r1, r2}
  NoWorker = NoWorker
  MaxAttempts = 2
  Downstream <- Chained
  Faults = {"abandon", "preclaim", "postcommit", "lapse"}
SYMMETRY Alike
CONSTRAINT FewMessages
PROPERTIES
  OnlyLatestAttemptCommits
