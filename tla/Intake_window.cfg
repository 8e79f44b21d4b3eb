SPECIFICATION FairSpec
CONSTANTS
  Fragments = {person, car, truck}
  NoFragment = NoFragment
  Faults = {"crash", "lost", "late", "outage"}
CHECK_DEADLOCK FALSE
INVARIANTS
  TypeOK
  AcceptedIsKept
  BucketsNested
PROPERTIES
  AcceptedIsIngested
