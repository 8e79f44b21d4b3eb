SPECIFICATION ReportSpec
CONSTANTS
  report = report
  Jobs = {report}
  Workers = {w1, w2}
  Reclaimers = {r1}
  NoWorker = NoWorker
  MaxAttempts = 1
  Downstream <- NoDownstream
  Faults = {"abandon"}
  Clients = {api}
  Scripts = {}
  MaxRequests = 2
CHECK_DEADLOCK FALSE
INVARIANTS
  InFlightHasJob
