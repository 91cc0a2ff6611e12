SPECIFICATION FairSpec
CONSTANTS
  Threads = {t1, t2, t3}
  Nightly = {}
  Scripts = {s1}
  Items = {i1, i2}
  MaxFailures = 0
  Faults = {}
  None = None
  t1 = t1
  t2 = t2
  t3 = t3
  s1 = s1
  i1 = i1
  i2 = i2
PROPERTIES
  FlagsServed
CHECK_DEADLOCK FALSE
