SPECIFICATION Spec
CONSTANTS
  i1 = i1
  f1 = f1
  r1 = r1
  x1 = x1
  short = short
  Events = {}
  Images = {i1}
  Frames = {f1}
  Summaries = {}
  Buckets = {}
  Reports = {r1}
  Source <- MCSource
  Limiters = {"asks", "pulls"}
  Max <- MCMax
  Window = 0
  EndOfTime = 1
  Threads = {t1}
  NoFrame = NoFrame
  MaxAttempts = 1
  MaxPulls = 1
  Asks = {a1}
  Backends = {gpt}
  BackendOrder <- MCBackendOrder
  gemma = gemma
  claude = claude
  gpt = gpt
  Configured = claude
  Gemma = gemma
  NoThread = NoThread
  NoBackend = NoBackend
  MaxIterations = 2
  Invented = {x1}
  Markers = {i1, f1, x1, short}
  Matches <- MCMatches
  MaxMarkers = 1
INVARIANTS AssistantTypeOK CitedIsRecord
PROPERTIES EveryAskEnds
CHECK_DEADLOCK FALSE
