SPECIFICATION PullSpec
CONSTANTS
  Events = {}
  Images = {}
  Frames = {f1}
  Summaries = {}
  Buckets = {}
  Reports = {}
  Source <- MCSource
  Limiters = {"pulls"}
  Max <- MCMax
  Window = 1
  EndOfTime = 2
  Threads = {t1, t2}
  NoFrame = NoFrame
  MaxAttempts = 2
  MaxPulls = 3
INVARIANTS PulledIsStored AdmittedPerWindow
PROPERTIES EveryPullEnds PullsAreAtomic
CHECK_DEADLOCK FALSE
