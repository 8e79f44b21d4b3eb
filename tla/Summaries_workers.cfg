SPECIFICATION Spec
CONSTANTS
  first = first
  again = again
  once_more = once_more
  second = second
  w00 = w00
  w15 = w15
  Buckets = {first, again, once_more, second}
  Windows = {w00, w15}
  WindowOf <- TwoWindows
  Expected = 4
  Workers = {v1, v2, v3}
  CameraId = CameraId
  ScopeId = ScopeId
  NoSummary = NoSummary
CHECK_DEADLOCK FALSE
INVARIANTS
  TypeOK
  SomeSummaryIsLatest
  SupersededByNewer
  EmbeddingPerSummary
