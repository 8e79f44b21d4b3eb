SPECIFICATION Spec
CONSTANTS
  bucket = bucket
  embedding = embedding
  Jobs = {bucket}
  Workers = {w1, w2}
  Reclaimers = {r1}
  NoWorker = NoWorker
  MaxAttempts = 2
  Downstream <- Unrelated
  Faults = {"abandon", "lapse"}
PROPERTIES
  TerminalIsFinal
