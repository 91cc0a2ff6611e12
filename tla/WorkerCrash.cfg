SPECIFICATION Spec
CONSTANTS
  Items = {i1, i2}
  Contents = {c1}
  Titles = {t1, t2}
  MaxAttempts = 2
  Backoff <- OneBackoff
  Faults = {"transient", "llm_account", "crash"}
  ShippedProviders = FALSE
  None = None
  i1 = i1
  i2 = i2
  c1 = c1
  t1 = t1
  t2 = t2
SYMMETRY
  TwoItems
INVARIANTS
  OneNote
  WholeMediaOnly
  OutageIsHarmless
PROPERTIES
  OutageStopsPass
