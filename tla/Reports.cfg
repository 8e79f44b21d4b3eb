SPECIFICATION ReportSpec
CONSTANTS
  report = report
  Jobs = {report}
  Workers = {w1, w2}
  Reclaimers = {r1}
  NoWorker = NoWorker
  MaxAttempts = 1
  Downstream <- NoDownstream
  Faults = {"abandon", "postcommit", "lapse"}
  Clients = {api1, api2}
  Scripts = {"dlq_replay", "prune_reports"}
  MaxRequests = 2
SYMMETRY Alike
CONSTRAINT Explored
CHECK_DEADLOCK FALSE
INVARIANTS
  ReportTypeOK
  OneGenerator
  SucceededHasReport
PROPERTIES
  SuccessIsFinal
