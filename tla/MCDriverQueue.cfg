SPECIFICATION Spec
CONSTANTS
  w1 = w1
  w2 = w2
  i1 = i1
  i2 = i2
  Workers = {w1, w2}
  Ids = {i1, i2}
  NoOne = NoOne
  Absent = Absent
  NoItem = NoItem
  Lane <- MCLane
  Serves <- MCServes
  Stamps = {0, 1}
  Visibility = 1
  ResumeDelay = 2
  Backoff = 1
  StaleAge = 2
  MaxScan = 2
  MaxAttempts = 2
  AttemptBound = 3
INVARIANTS
  ClaimsAreCounted
PROPERTIES
  TakeoverJustified
  StaleHolderHarmless
  ImplementsLeaseQueue
CHECK_DEADLOCK FALSE
