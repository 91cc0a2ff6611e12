SPECIFICATION FairSpec
CONSTANTS
  Items = {i1}
  Contents = {c1}
  Titles = {t1}
  MaxAttempts = 3
  Backoff <- ShortBackoff
  Faults <- ItemFaults
  ShippedProviders = TRUE
  None = None
  i1 = i1
  c1 = c1
  t1 = t1
INVARIANTS
  BoundedAttempts
PROPERTIES
  EventuallySettled
  FailuresAreCharged
