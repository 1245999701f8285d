CONSTANTS
  t1 = t1
  t2 = t2
  n1 = n1
  n2 = n2
  v1 = v1
  v2 = v2
  Names <- MCNames
  Values <- MCValues
  None = None
  Junk = Junk
  Torn = Torn
  PrivMax = 3
  MaxItem = 2
  Supported = TRUE
  Threads = {t1}
  MaxOps = 3
  MaxCrashes = 1
  MaxFaults = 0
SPECIFICATION Spec
INVARIANTS ReadsPrivateFirst
CHECK_DEADLOCK FALSE
