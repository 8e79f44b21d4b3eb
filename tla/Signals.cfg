SPECIFICATION Spec
CONSTANTS
  BucketMinutes = 15
  NoPeak = NoPeak
  Pattern = "mixed"
  Deliveries <- MCDeliveries
  Scenarios = {"steady", "idle", "spike", "anomaly", "after_hours", "late_start_by_3h", "start_of_day", "drop_midday", "after_hours_drop"}
  Base <- Yesterday
  alarm = alarm
  novelty = novelty
  Images = {alarm, novelty}
  Trigger <- MCTrigger
  Workers = {p1}
  NoJob = NoJob
  Scripts = {r1}
  MaxInputs <- MCMaxInputs
  RederiveFrom <- Day
INVARIANTS
  TypeOK
  RederiveAgrees
  StartsOncePerDay
  LateStartIsStart
  EventsFollowMarkers
  ReplayAsDocumented
