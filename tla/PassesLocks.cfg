SPECIFICATION FairSpec
CONSTANTS
  Threads = {t1, t2}
  Nightly = {n1}
  Scripts = {}
  Items = {i1, i2}
  MaxFailures = 2
  Faults = {"crash", "timeout"}
  None = None
  t1 = t1
  t2 = t2
  n1 = n1
  i1 = i1
  i2 = i2
INVARIANTS
  TypeOK
  PassesExclude
  SnapshotFresh
PROPERTIES
  Drained
  Followed
